---- MODULE Spec2Model ----
(***************************************************************************)
(* A model of the synthetic telecom data generator                         *)
(* (src/telecom_data_generator.py) and of the file handling of the         *)
(* dashboard that consumes its output.                                     *)
(*                                                                         *)
(* Conventions                                                             *)
(*  - A Python string whose characters the code inspects (prices,          *)
(*    allowances, country lists) is a sequence of one-character strings.   *)
(*    A string the code only compares for equality (plan ids, names,       *)
(*    segments) is a TLA+ string.                                          *)
(*  - A Python float is an exact decimal [m |-> mantissa, d |-> digits     *)
(*    after the point], normalised so that equal numbers are equal         *)
(*    records.  Rounding error of binary floating point is not modelled.   *)
(*  - A call that may raise returns [exc |-> name, val |-> value]; exc is  *)
(*    "" when the call returned normally.                                  *)
(*  - A draw from the random source is an existentially chosen element of  *)
(*    a small sample of the range drawn from: its end points and, for an   *)
(*    integer range, the values next to the lower end point.               *)
(***************************************************************************)
EXTENDS Integers, Sequences, FiniteSets, Bags, TLC

VARIABLES
    price_str,      \* extract_price_numeric: the argument of the call
    price_result,   \* extract_price_numeric: what the call returned ("none" before)
    csv_file,       \* load_plans_from_csv: the file named by the argument
    load_result,    \* load_plans_from_csv: what the call returned ("none" before)
    gen_profile,    \* generate_synthetic_record: the profile type argument
    gen_churned,    \* generate_synthetic_record: the is_churned argument
    gen_operators,  \* the plan catalog handed to the generator (None or a catalog)
    gen_record,     \* generate_synthetic_record: what the call returned ("none" before)
    insight,        \* generate_dynamic_insight: what the call returned ("none" before)
    current_plan,   \* find_better_competitor_plan, find_reasons_to_stay: the
                    \* champion_plan argument
    better_plan,    \* find_better_competitor_plan: what the call returned
    stay_reason,    \* find_reasons_to_stay: what the call returned
    batch_count,    \* generate_multiple_records: the count argument
    batch_operators,\* generate_multiple_records: the catalog argument
    category_counts,\* generate_multiple_records: category_counts
    batch_records,  \* generate_multiple_records: account IDs and statuses of records
    batch_insights, \* generate_multiple_records: account IDs and statuses of insights
    batch_result,   \* generate_multiple_records: "running", "returned" or the
                    \* exception that ended the call
    now,            \* the clock datetime.datetime.now() reads
    saved_records,  \* how many records the batch to save holds
    output_dir,     \* the files of the output directory
    records_file,   \* save_records_to_csv: the file name returned
    insights_file,  \* save_insights_to_csv: the file name returned
    replay_count,   \* two runs of generate_multiple_records: the count argument
    replay_operators,\* two runs: the catalog object handed to both
    replay_draws,   \* two runs: what the random source gave the first run, in order
    replay_runs,    \* two runs: the runs begun so far, each with its lists
    current_time,   \* dashboard: the clock datetime.now() reads
    csv_files,      \* dashboard: the *.csv files of the output directory
    matched_pairs,  \* dashboard: what get_matching_csv_files returned last
    last_run,       \* dashboard: the operation run last, the files it found
                    \* and what it returned
    written_at,     \* dashboard: when the last two generations that wrote
                    \* files were started
    operations      \* dashboard: how many buttons were pressed so far

priceVars == <<price_str, price_result>>
loaderVars == <<csv_file, load_result>>
recordVars == <<gen_profile, gen_churned, gen_operators, gen_record>>
insightVars == <<insight, current_plan, better_plan, stay_reason>>
batchVars ==
    <<batch_count, batch_operators, category_counts, batch_records, batch_insights,
      batch_result>>
saveVars == <<now, saved_records, output_dir, records_file, insights_file>>
replayVars == <<replay_count, replay_operators, replay_draws, replay_runs>>

dashVars ==
    <<current_time, csv_files, matched_pairs, last_run, written_at, operations>>

vars ==
    <<priceVars, loaderVars, recordVars, insightVars, batchVars, saveVars, replayVars,
      dashVars>>

----------------------------------------------------------------------------
(* Bounds of the model *)

\* longest price string handed to extract_price_numeric
MaxLen == 3

\* most data rows of a plan file
MaxRows == 2

\* values a draw from a range can take beside the end points of the range
Spread == 0

\* largest count handed to generate_multiple_records
MaxCount == 20

\* the clock: days it runs through, seconds of a day, readings within a second
MaxDays == 2
SecondsPerDay == 3
TicksPerSecond == 2
MaxAccountId == 1
MaxReplay == 1

\* the dashboard: pairs of files earlier runs of the generator left in the
\* output directory, the largest keep_pairs handed to delete_older_data_files,
\* the days the dashboard is used and the times of a day its clock is read
MaxEarlierPairs == 38
MaxKeepPairs == 38
SessionDays == 1
ReadingsPerDay == 3
MaxOperations == 3

----------------------------------------------------------------------------
(* Strings and numbers *)

Digits == <<"0", "1", "2", "3", "4", "5", "6", "7", "8", "9">>

IsDigit(c) == \E i \in 1..10 : Digits[i] = c

DigitVal(c) == (CHOOSE i \in 1..10 : Digits[i] = c) - 1

RECURSIVE Pow10(_)
Pow10(n) == IF n = 0 THEN 1 ELSE 10 * Pow10(n - 1)

\* the number m / 10^d as a normalised decimal
RECURSIVE Dec(_, _)
Dec(m, d) == IF d > 0 /\ m % 10 = 0 THEN Dec(m \div 10, d - 1) ELSE [m |-> m, d |-> d]

Num(n) == Dec(n, 0)

\* a < b, a <= b on decimals
DLess(a, b) == a.m * Pow10(b.d) < b.m * Pow10(a.d)
DLeq(a, b) == a.m * Pow10(b.d) <= b.m * Pow10(a.d)

\* the value of a string of digits read as a natural number
RECURSIVE DigitsValue(_)
DigitsValue(s) ==
    IF s = <<>> THEN 0
    ELSE 10 * DigitsValue(SubSeq(s, 1, Len(s) - 1)) + DigitVal(s[Len(s)])

\* index of the first occurrence of character c in s, 0 when there is none
FirstIndex(s, c) ==
    IF \E i \in 1..Len(s) : s[i] = c
    THEN CHOOSE i \in 1..Len(s) : s[i] = c /\ \A j \in 1..(i - 1) : s[j] /= c
    ELSE 0

\* str.split(c)[0]: the part of s before the first c, all of s when there is none
SplitFirst(s, c) ==
    IF FirstIndex(s, c) = 0 THEN s ELSE SubSeq(s, 1, FirstIndex(s, c) - 1)

\* str.replace(c, ''): s without its occurrences of the character c
RECURSIVE RemoveChar(_, _)
RemoveChar(s, c) ==
    IF s = <<>> THEN <<>>
    ELSE IF Head(s) = c THEN RemoveChar(Tail(s), c)
    ELSE <<Head(s)>> \o RemoveChar(Tail(s), c)

\* float(s) for a string of digits, ".", "$", "/" and letters: digits with at most
\* one point and at least one digit parse, everything else is a ValueError.
\* (Signs, exponents, blanks, underscores, "inf" and "nan" are not in the
\* strings of the model.)
FloatMalformed(s) ==
    \/ s = <<>>
    \/ \E i \in 1..Len(s) : ~IsDigit(s[i]) /\ s[i] /= "."
    \/ Cardinality({i \in 1..Len(s) : s[i] = "."}) > 1
    \/ \A i \in 1..Len(s) : ~IsDigit(s[i])

FloatValue(s) ==
    LET p == FirstIndex(s, ".")
        whole == IF p = 0 THEN s ELSE SubSeq(s, 1, p - 1)
        frac == IF p = 0 THEN <<>> ELSE SubSeq(s, p + 1, Len(s))
    IN  Dec(DigitsValue(whole) * Pow10(Len(frac)) + DigitsValue(frac), Len(frac))

\* str(n) of a natural number
RECURSIVE DigitsOf(_)
DigitsOf(n) ==
    IF n < 10 THEN <<Digits[n + 1]>> ELSE DigitsOf(n \div 10) \o <<Digits[(n % 10) + 1]>>

\* f"{x:.2f}" of a decimal of at most 2 digits after the point
format_2f(x) ==
    LET hundredths == x.m * Pow10(2 - x.d)
    IN  DigitsOf(hundredths \div 100)
            \o <<".", Digits[((hundredths \div 10) % 10) + 1], Digits[(hundredths % 10) + 1]>>

Returned(v) == [exc |-> "", val |-> v]
Raised(e) == [exc |-> e, val |-> Num(0)]

float(s) == IF FloatMalformed(s) THEN Raised("ValueError") ELSE Returned(FloatValue(s))

----------------------------------------------------------------------------
(* extract_price_numeric *)

\* a variant that forgets to remove the currency symbol
extract_price_numeric_keeps_dollar(price) ==
    IF price = <<>> THEN Returned(Num(0))
    ELSE LET parsed == float(SplitFirst(price, "/"))
         IN  IF parsed.exc = "ValueError" THEN Returned(Num(0)) ELSE parsed

extract_price_numeric(price) ==
    IF price = <<>> THEN Returned(Num(0))
    ELSE LET parsed == float(RemoveChar(SplitFirst(price, "/"), "$"))
         IN  IF parsed.exc = "ValueError" THEN Returned(Num(0)) ELSE parsed

\* the numeric price of a string, for the callers (the call never raises)
PriceOf(price) == extract_price_numeric(price).val

----------------------------------------------------------------------------
(* The default plan catalog.  A catalog (a Python dict, which keeps insertion   *)
(* order) is a sequence of operators, each with its name and its list of       *)
(* plans.  The registered and service mark signs of two plan names are written *)
(* (R) and (SM).                                                               *)

Unlimited == <<"U", "n", "l", "i", "m", "i", "t", "e", "d">>

\* "230+"
Countries230 ==
    <<"2", "3", "0", "+">>

\* "Mexico,Canada"
CountriesMexicoCanada ==
    <<"M", "e", "x", "i", "c", "o", ",", "C", "a", "n", "a", "d", "a">>

\* "US,Mexico,Canada"
CountriesUsMexicoCanada ==
    <<"U", "S", ",", "M", "e", "x", "i", "c", "o", ",", "C", "a", "n", "a", "d", "a">>

\* "Mexico,Canada,UK,Germany,Italy,France,Spain"
CountriesSeven ==
    <<"M", "e", "x", "i", "c", "o", ",", "C", "a", "n", "a", "d", "a", ",", "U", "K", ",",
      "G", "e", "r", "m", "a", "n", "y", ",", "I", "t", "a", "l", "y", ",", "F", "r", "a",
      "n", "c", "e", ",", "S", "p", "a", "i", "n">>

\* "US,Mexico,Canada,UK,Australia,France,Germany,Italy,Spain,Japan"
CountriesTen ==
    <<"U", "S", ",", "M", "e", "x", "i", "c", "o", ",", "C", "a", "n", "a", "d", "a", ",",
      "U", "K", ",", "A", "u", "s", "t", "r", "a", "l", "i", "a", ",", "F", "r", "a", "n",
      "c", "e", ",", "G", "e", "r", "m", "a", "n", "y", ",", "I", "t", "a", "l", "y", ",",
      "S", "p", "a", "i", "n", ",", "J", "a", "p", "a", "n">>

get_default_operators ==
    <<
      [name |-> "Operator B (champion)", plans |-> <<
           [planID |-> "POCH045", name |-> "5GB Plan", price |-> <<"4", "0">>,
            customerType |-> "Individual", dataAllowance |-> <<"5", "G", "B">>,
            marketSegment |-> "General", streamingQuality |-> "HD", businessType |-> "prepaid",
            activationFee |-> "35", popularity |-> "", international_data |-> <<"0">>,
            international_voice |-> "0", international_sms |-> "0",
            international_countries |-> <<>>, hotspot_data |-> <<"5">>],
           [planID |-> "POCH008", name |-> "Infinite Plus",
            price |-> <<"4", "0", "/", "l", "i", "n", "e">>, customerType |-> "Family & CUG",
            dataAllowance |-> Unlimited, marketSegment |-> "Nurses", streamingQuality |-> "HD",
            businessType |-> "prepaid", activationFee |-> "35", popularity |-> "",
            international_data |-> <<"5">>, international_voice |-> "120",
            international_sms |-> "50",
            international_countries |-> CountriesUsMexicoCanada,
            hotspot_data |-> <<"1", "5">>],
           [planID |-> "POCH011", name |-> "Infinite Plus", price |-> <<"7", "0">>,
            customerType |-> "Individual", dataAllowance |-> Unlimited,
            marketSegment |-> "Military and veterans", streamingQuality |-> "HD",
            businessType |-> "prepaid", activationFee |-> "35", popularity |-> "",
            international_data |-> <<"5">>, international_voice |-> "120",
            international_sms |-> "50",
            international_countries |-> CountriesUsMexicoCanada,
            hotspot_data |-> <<"1", "5">>],
           [planID |-> "POCH023", name |-> "Infinite Ultimate", price |-> <<"9", "0">>,
            customerType |-> "Individual", dataAllowance |-> Unlimited,
            marketSegment |-> "General", streamingQuality |-> "4K UHD",
            businessType |-> "prepaid", activationFee |-> "35", popularity |-> "Best Value",
            international_data |-> <<"1", "0">>, international_voice |-> "Unlimited",
            international_sms |-> "Unlimited",
            international_countries |-> CountriesTen,
            hotspot_data |-> <<"3", "0">>],
           [planID |-> "POCH030", name |-> "Infinite Ultimate",
            price |-> <<"5", "0", "/", "l", "i", "n", "e">>, customerType |-> "Family & CUG",
            dataAllowance |-> Unlimited, marketSegment |-> "Nurses",
            streamingQuality |-> "4K UHD", businessType |-> "prepaid", activationFee |-> "35",
            popularity |-> "Best Value", international_data |-> <<"1", "0">>,
            international_voice |-> "Unlimited", international_sms |-> "Unlimited",
            international_countries |-> CountriesTen,
            hotspot_data |-> <<"3", "0">>],
           [planID |-> "POCH031", name |-> "Infinite Ultimate", price |-> <<"8", "0">>,
            customerType |-> "Individual", dataAllowance |-> Unlimited,
            marketSegment |-> "Students", streamingQuality |-> "4K UHD",
            businessType |-> "prepaid", activationFee |-> "35", popularity |-> "Best Value",
            international_data |-> <<"1", "0">>, international_voice |-> "Unlimited",
            international_sms |-> "Unlimited",
            international_countries |-> CountriesTen,
            hotspot_data |-> <<"3", "0">>]
      >>],
      [name |-> "Operator A", plans |-> <<
           [planID |-> "POA001", name |-> "Operator A Unlimited Starter(R) SL",
            price |-> <<"6", "5">>, customerType |-> "Individual", dataAllowance |-> Unlimited,
            marketSegment |-> "General", streamingQuality |-> "SD", businessType |-> "prepaid",
            activationFee |-> "15", popularity |-> "", international_data |-> <<"0">>,
            international_voice |-> "0", international_sms |-> "Unlimited",
            international_countries |-> Countries230, hotspot_data |-> <<"5">>],
           [planID |-> "POA031", name |-> "Operator A PREPAID Unlimited MAX(SM)",
            price |-> <<"6", "5">>, customerType |-> "Individual", dataAllowance |-> Unlimited,
            marketSegment |-> "General", streamingQuality |-> "4K UHD",
            businessType |-> "prepaid", activationFee |-> "15", popularity |-> "",
            international_data |-> <<"5">>, international_voice |-> "Unlimited",
            international_sms |-> "Unlimited",
            international_countries |-> Countries230, hotspot_data |-> <<"1", "5">>]
      >>],
      [name |-> "Operator T", plans |-> <<
           [planID |-> "POT001", name |-> "Operator T 5G unlimited", price |-> <<"5", "5">>,
            customerType |-> "Individual", dataAllowance |-> Unlimited,
            marketSegment |-> "General", streamingQuality |-> "HD", businessType |-> "prepaid",
            activationFee |-> "0", popularity |-> "Best Value", international_data |-> <<"5">>,
            international_voice |-> "Unlimited", international_sms |-> "Unlimited",
            international_countries |-> CountriesMexicoCanada,
            hotspot_data |-> <<"1", "0">>],
           [planID |-> "POT012", name |-> "Go5G Military", price |-> <<"3", "0">>,
            customerType |-> "Individual", dataAllowance |-> Unlimited,
            marketSegment |-> "Military and veterans", streamingQuality |-> "HD",
            businessType |-> "prepaid", activationFee |-> "0", popularity |-> "",
            international_data |-> <<"5">>, international_voice |-> "Unlimited",
            international_sms |-> "Unlimited",
            international_countries |-> CountriesMexicoCanada,
            hotspot_data |-> <<"1", "0">>],
           [planID |-> "POT019", name |-> "Go5G Plus 55", price |-> <<"7", "5">>,
            customerType |-> "Individual", dataAllowance |-> Unlimited,
            marketSegment |-> "55+", streamingQuality |-> "4K UHD", businessType |-> "prepaid",
            activationFee |-> "0", popularity |-> "", international_data |-> <<"1", "0">>,
            international_voice |-> "Unlimited", international_sms |-> "Unlimited",
            international_countries |-> CountriesSeven,
            hotspot_data |-> <<"2", "0">>]
      >>],
      [name |-> "Operator C", plans |-> <<
           [planID |-> "POC001", name |-> "$15 Smartphone Plan", price |-> <<"1", "5">>,
            customerType |-> "Individual", dataAllowance |-> <<"1">>,
            marketSegment |-> "General", streamingQuality |-> "SD", businessType |-> "prepaid",
            activationFee |-> "0", popularity |-> "", international_data |-> <<"0">>,
            international_voice |-> "0", international_sms |-> "0",
            international_countries |-> <<>>, hotspot_data |-> <<"1">>]
      >>]
    >>

Champion == "Operator B (champion)"

\* op_name in operators
HasOperator(operators, op_name) == \E i \in 1..Len(operators) : operators[i].name = op_name

\* operators[op_name]["plans"] (the operator is present)
PlansOf(operators, op_name) ==
    operators[CHOOSE i \in 1..Len(operators) : operators[i].name = op_name].plans

----------------------------------------------------------------------------
(* The random source *)

Min(a, b) == IF a <= b THEN a ELSE b

\* random_int(min_val, max_val): the end points (both can be drawn) and the
\* Spread values that follow the lower one
random_int(min_val, max_val) ==
    {min_val, max_val} \cup {min_val + k : k \in 1..Min(Spread, max_val - min_val)}

\* random_float(min_val, max_val), rounded to 2 decimal places: the end points
\* (rounding makes both of them possible)
random_float(min_val, max_val) == {min_val, max_val}

\* random_choice(values): any element of the list
random_choice(values) == {values[i] : i \in 1..Len(values)}

----------------------------------------------------------------------------
(* customer_profiles and churn_reasons.  Of a profile the model keeps the      *)
(* fields the modelled part of the record is drawn from.                       *)

ProfileTypes ==
    <<"Price Sensitive", "Feature Deficiency", "Customer Service", "Network Quality",
      "Loyal Customer", "At Risk">>

customer_profiles ==
    [type \in random_choice(ProfileTypes) |->
        CASE type = "Price Sensitive" ->
               [churn_risk |-> "High", income_levels |-> <<"Low", "Medium">>,
                data_download |-> <<15, 50>>, international |-> "Low"]
          [] type = "Feature Deficiency" ->
               [churn_risk |-> "Medium", income_levels |-> <<"Medium", "High">>,
                data_download |-> <<50, 120>>, international |-> "Medium"]
          [] type = "Customer Service" ->
               [churn_risk |-> "Medium to High", income_levels |-> <<"Medium", "High">>,
                data_download |-> <<40, 100>>, international |-> "Low"]
          [] type = "Network Quality" ->
               [churn_risk |-> "High", income_levels |-> <<"Medium", "High">>,
                data_download |-> <<80, 150>>, international |-> "Low"]
          [] type = "Loyal Customer" ->
               [churn_risk |-> "Low", income_levels |-> <<"Medium", "High">>,
                data_download |-> <<75, 200>>, international |-> "Medium"]
          [] type = "At Risk" ->
               [churn_risk |-> "Medium", income_levels |-> <<"Medium">>,
                data_download |-> <<50, 100>>, international |-> "Low"]]

churn_reasons ==
    [type \in random_choice(ProfileTypes) |->
        CASE type = "Price Sensitive" -> "Price sensitivity"
          [] type = "Feature Deficiency" ->
               "Competitor offered better streaming quality and international options"
          [] type = "Customer Service" ->
               "Multiple unresolved complaints and poor customer service"
          [] type = "Network Quality" -> "Network coverage and speed issues in their location"
          [] type = "Loyal Customer" -> ""
          [] type = "At Risk" -> ""]

----------------------------------------------------------------------------
(* select_appropriate_plan *)

\* a variant that resets the numeric_price a plan already carries
with_numeric_price_reset(all_plans) ==
    [i \in 1..Len(all_plans) |->
        IF "numeric_price" \in DOMAIN all_plans[i]
        THEN [all_plans[i] EXCEPT !.numeric_price = Num(0)]
        ELSE [numeric_price |-> PriceOf(all_plans[i].price)] @@ all_plans[i]]

\* lines 1051 to 1053: every plan of the list gets its numeric_price, once
with_numeric_price(all_plans) ==
    [i \in 1..Len(all_plans) |->
        IF "numeric_price" \in DOMAIN all_plans[i] THEN all_plans[i]
        ELSE [numeric_price |-> PriceOf(all_plans[i].price)] @@ all_plans[i]]

\* lines 1055 to 1123, for a non-empty list whose plans already carry
\* numeric_price: the list handed to the random_choice the call returns from,
\* the candidates of the profile and outcome when there are any, all plans
\* otherwise
plans_to_choose_from(profile_type, all_plans, is_churned) ==
    LET IsBudget(p) == DLess(p.numeric_price, Num(50))
        IsMidRange(p) == DLeq(Num(50), p.numeric_price) /\ DLess(p.numeric_price, Num(80))
        IsPremium(p) == DLeq(Num(80), p.numeric_price)
        budget_plans == SelectSeq(all_plans, IsBudget)
        mid_range_plans == SelectSeq(all_plans, IsMidRange)
        premium_plans == SelectSeq(all_plans, IsPremium)
        PoorFeatures(p) == p.streamingQuality /= "4K UHD" /\ p.international_data = <<"0">>
        RichFeatures(p) ==
            p.streamingQuality = "4K UHD" \/ p.international_data \notin {<<"0">>, <<>>}
        IsUnlimited(p) == p.dataAllowance = Unlimited
        IsBestValue(p) == p.popularity = "Best Value"
        OrAll(candidate_plans) == IF candidate_plans /= <<>> THEN candidate_plans ELSE all_plans
    IN  CASE profile_type = "Price Sensitive" ->
               OrAll(IF is_churned THEN mid_range_plans \o premium_plans ELSE budget_plans)
          [] profile_type = "Feature Deficiency" ->
               OrAll(IF is_churned THEN SelectSeq(all_plans, PoorFeatures)
                     ELSE SelectSeq(all_plans, RichFeatures))
          [] profile_type = "Customer Service" ->
               OrAll(IF is_churned THEN premium_plans \o mid_range_plans ELSE <<>>)
          [] profile_type = "Network Quality" ->
               OrAll(IF is_churned THEN SelectSeq(all_plans, IsUnlimited) ELSE premium_plans)
          [] profile_type = "Loyal Customer" ->
               OrAll(IF SelectSeq(all_plans, IsBestValue) /= <<>>
                     THEN SelectSeq(all_plans, IsBestValue) ELSE premium_plans)
          [] profile_type = "At Risk" -> OrAll(mid_range_plans)
          [] OTHER -> all_plans

\* the plans select_appropriate_plan can return
select_appropriate_plan(profile_type, all_plans, is_churned) ==
    random_choice(plans_to_choose_from(profile_type, all_plans, is_churned))

----------------------------------------------------------------------------
(* generate_synthetic_record.  The catalog argument is None or a catalog.      *)
(* Of the record the model keeps the plan fields, the income level, the data   *)
(* download, the international usage, satisfaction, complaints, the churn      *)
(* fields and CLTV.                                                            *)

None == <<[name |-> "None", plans |-> <<>>]>>

\* line 1138: the catalog has the champion operator with a non-empty plan list
has_champion_plans(operators) ==
    /\ operators /= None
    /\ operators /= <<>>
    /\ HasOperator(operators, Champion)
    /\ PlansOf(operators, Champion) /= <<>>

\* all_available_plans that always takes the plans of the default catalog
all_available_plans_of_default(operators) ==
    with_numeric_price(PlansOf(get_default_operators, Champion))

\* lines 1138 to 1143, as the plan selection leaves the list
all_available_plans(operators) ==
    IF has_champion_plans(operators) THEN with_numeric_price(PlansOf(operators, Champion))
    ELSE with_numeric_price(PlansOf(get_default_operators, Champion))

\* the catalog argument after the call: its champion plans carry numeric_price
catalog_after_selection(operators) ==
    IF has_champion_plans(operators)
    THEN [i \in 1..Len(operators) |->
            IF operators[i].name = Champion
            THEN [operators[i] EXCEPT !.plans = with_numeric_price(@)]
            ELSE operators[i]]
    ELSE operators

\* a variant that draws roaming usage for every tier
international_usage_for_all(tier) ==
    {[intl_voice |-> v, intl_data_upload |-> u, intl_data_download |-> d, intl_sms |-> s] :
        v \in random_int(20, 100), u \in random_float(Dec(2, 1), Num(2)),
        d \in random_float(Num(1), Num(8)), s \in random_int(10, 50)}

\* lines 1183 to 1198: voice, data upload, data download, SMS
international_usage(tier) ==
    CASE tier = "Medium" ->
           {[intl_voice |-> v, intl_data_upload |-> u, intl_data_download |-> d, intl_sms |-> s] :
                v \in random_int(20, 100), u \in random_float(Dec(2, 1), Num(2)),
                d \in random_float(Num(1), Num(8)), s \in random_int(10, 50)}
      [] tier = "High" ->
           {[intl_voice |-> v, intl_data_upload |-> u, intl_data_download |-> d, intl_sms |-> s] :
                v \in random_int(100, 300), u \in random_float(Num(2), Num(5)),
                d \in random_float(Num(8), Num(20)), s \in random_int(50, 150)}
      [] OTHER ->
           {[intl_voice |-> 0, intl_data_upload |-> Num(0), intl_data_download |-> Num(0),
             intl_sms |-> 0]}

\* lines 1203 to 1219
satisfaction_and_complaints(profile_type, is_churned) ==
    LET risk == customer_profiles[profile_type].churn_risk
        Draws(s, c) == {[satisfaction_score |-> x, complaints |-> y] : x \in s, y \in c}
    IN  IF is_churned
        THEN IF profile_type = "Customer Service"
             THEN Draws(random_int(1, 2), random_int(5, 10))
             ELSE IF risk = "High" THEN Draws(random_int(1, 3), random_int(2, 6))
             ELSE Draws(random_int(2, 3), random_int(1, 4))
        ELSE IF risk \in {"Medium", "Medium to High"}
             THEN Draws(random_int(2, 4), random_int(1, 3))
             ELSE Draws(random_int(4, 5), random_int(0, 1))

\* a variant whose at-risk scores of the first kind start at 30
churn_outcome_low_at_risk_score(profile_type, is_churned) ==
    LET risk == customer_profiles[profile_type].churn_risk
        Outcome(status, scores, category, reason) ==
            {[churn_status |-> status, churn_score |-> s, churn_category |-> category,
              churn_reason |-> reason] : s \in scores}
    IN  IF is_churned
        THEN Outcome("Churned", random_int(70, 100), profile_type, churn_reasons[profile_type])
        ELSE IF profile_type = "At Risk" \/ risk \in {"High", "Medium to High"}
             THEN Outcome("At Risk", random_int(30, 85), "", "")
        ELSE IF risk = "Medium"
             THEN Outcome("At Risk", random_int(45, 65), "", "")
                  \cup Outcome("Not Churned", random_int(30, 45), "", "")
        ELSE Outcome("Not Churned", random_int(5, 30), "", "")

\* lines 1221 to 1242
churn_outcome(profile_type, is_churned) ==
    LET risk == customer_profiles[profile_type].churn_risk
        Outcome(status, scores, category, reason) ==
            {[churn_status |-> status, churn_score |-> s, churn_category |-> category,
              churn_reason |-> reason] : s \in scores}
    IN  IF is_churned
        THEN Outcome("Churned", random_int(70, 100), profile_type, churn_reasons[profile_type])
        ELSE IF profile_type = "At Risk" \/ risk \in {"High", "Medium to High"}
             THEN Outcome("At Risk", random_int(60, 85), "", "")
        ELSE IF risk = "Medium"
             THEN Outcome("At Risk", random_int(45, 65), "", "")
                  \cup Outcome("Not Churned", random_int(30, 45), "", "")
        ELSE Outcome("Not Churned", random_int(5, 30), "", "")

\* lines 1244 to 1250
customer_lifetime_value(income) ==
    IF income = "Low" THEN random_int(1000, 3000)
    ELSE IF income = "Medium" THEN random_int(3000, 6000)
    ELSE random_int(6000, 12000)

\* lines 1164 and 1244 to 1250: the income levels of a profile with their CLTV
income_and_cltv(profile_type) ==
    UNION {{[income |-> i, cltv |-> v] : v \in customer_lifetime_value(i)} :
              i \in random_choice(customer_profiles[profile_type].income_levels)}

\* line 1179
data_download_of(profile_type) ==
    random_float(Num(customer_profiles[profile_type].data_download[1]),
                 Num(customer_profiles[profile_type].data_download[2]))

\* lines 1253 to 1300: the record built from the plan and the draws
record_of(selected_plan, money, data_download, intl, sc, churn) ==
    [plan_id |-> selected_plan.planID,
     plan_name |-> selected_plan.name,
     market_segment |-> selected_plan.marketSegment,
     customer_type |-> selected_plan.customerType,
     price |-> selected_plan.price,
     income |-> money.income,
     data_download |-> format_2f(data_download),
     intl_voice |-> intl.intl_voice,
     intl_data_upload |-> format_2f(intl.intl_data_upload),
     intl_data_download |-> format_2f(intl.intl_data_download),
     intl_sms |-> intl.intl_sms,
     complaints |-> sc.complaints,
     churn_category |-> churn.churn_category,
     churn_reason |-> churn.churn_reason,
     churn_status |-> churn.churn_status,
     churn_score |-> churn.churn_score,
     cltv |-> money.cltv,
     satisfaction_score |-> sc.satisfaction_score]

\* the records generate_synthetic_record can return for a profile of the fixed set
synthetic_records(profile_type, is_churned, operators) ==
    {record_of(selected_plan, money, data_download, intl, sc, churn) :
        selected_plan \in select_appropriate_plan(profile_type,
                                                  all_available_plans(operators), is_churned),
        money \in income_and_cltv(profile_type),
        data_download \in data_download_of(profile_type),
        intl \in international_usage(customer_profiles[profile_type].international),
        sc \in satisfaction_and_complaints(profile_type, is_churned),
        churn \in churn_outcome(profile_type, is_churned)}

\* a variant that does not know the last profile type of the list
generate_synthetic_record_five_profiles(profile_type, is_churned, operators) ==
    IF profile_type \notin DOMAIN customer_profiles \ {"At Risk"}
    THEN {[exc |-> "ValueError", val |-> <<>>]}
    ELSE {Returned(r) : r \in synthetic_records(profile_type, is_churned, operators)}

\* lines 1129 to 1131 and the rest: a ValueError for an unknown profile type
generate_synthetic_record(profile_type, is_churned, operators) ==
    IF profile_type \notin DOMAIN customer_profiles
    THEN {[exc |-> "ValueError", val |-> <<>>]}
    ELSE {Returned(r) : r \in synthetic_records(profile_type, is_churned, operators)}

\* the catalog argument after generate_synthetic_record: line 1131 leaves the
\* function before the plans are looked up at line 1138
catalog_after_record(profile_type, operators) ==
    IF profile_type \notin DOMAIN customer_profiles THEN operators
    ELSE catalog_after_selection(operators)

----------------------------------------------------------------------------
(* Arithmetic and text of the plan comparisons *)

DAdd(a, b) ==
    LET d == IF a.d >= b.d THEN a.d ELSE b.d
    IN  Dec(a.m * Pow10(d - a.d) + b.m * Pow10(d - b.d), d)

DSub(a, b) == DAdd(a, [m |-> 0 - b.m, d |-> b.d])

DMul(a, b) == Dec(a.m * b.m, a.d + b.d)

DMin(a, b) == IF DLeq(a, b) THEN a ELSE b

\* |a|
DAbs(a) == IF a.m < 0 THEN [m |-> 0 - a.m, d |-> a.d] ELSE a

\* a / 5 and a / 10
DFifth(a) == Dec(2 * a.m, a.d + 1)
DTenth(a) == Dec(a.m, a.d + 1)

\* str.replace(old, new) for a non-empty old
RECURSIVE ReplaceAll(_, _, _)
ReplaceAll(s, old, new) ==
    IF Len(s) < Len(old) THEN s
    ELSE IF SubSeq(s, 1, Len(old)) = old
         THEN new \o ReplaceAll(SubSeq(s, Len(old) + 1, Len(s)), old, new)
    ELSE <<Head(s)>> \o ReplaceAll(Tail(s), old, new)

\* the characters of the allowance and type strings in code point order
CodePoints ==
    <<" ", "$", "&", "+", ",", ".", "/", "0", "1", "2", "3", "4", "5", "6", "7", "8", "9",
      "A", "B", "C", "D", "E", "F", "G", "H", "I", "J", "K", "L", "M", "N", "O", "P", "Q",
      "R", "S", "T", "U", "V", "W", "X", "Y", "Z", "a", "b", "c", "d", "e", "f", "g", "h",
      "i", "j", "k", "l", "m", "n", "o", "p", "q", "r", "s", "t", "u", "v", "w", "x", "y",
      "z">>

ord(c) == CHOOSE i \in 1..Len(CodePoints) : CodePoints[i] = c

\* a < b on strings
RECURSIVE StrLess(_, _)
StrLess(a, b) ==
    IF b = <<>> THEN FALSE
    ELSE IF a = <<>> THEN TRUE
    ELSE IF Head(a) = Head(b) THEN StrLess(Tail(a), Tail(b))
    ELSE ord(Head(a)) < ord(Head(b))

\* "1000" and the lower-case spelling line 690 looks for
Thousand == <<"1", "0", "0", "0">>
LowerUnlimited == <<"u", "n", "l", "i", "m", "i", "t", "e", "d">>

----------------------------------------------------------------------------
(* find_better_competitor_plan.  The result is the tuple (operator, plan,      *)
(* reason); NoneTuple is (None, None, None).  A reason is its wording with the *)
(* amounts written into it.                                                    *)

NoneTuple == [operator |-> "None", plan |-> [name |-> "None"], reason |-> [text |-> "None"]]

Tuple(op_name, plan, reason) == [operator |-> op_name, plan |-> plan, reason |-> reason]

\* the plans of the operators other than the champion, in catalog order
competitor_plans(operators) ==
    LET RECURSIVE Walk(_)
        Walk(i) ==
            IF i > Len(operators) THEN <<>>
            ELSE IF operators[i].name = Champion THEN Walk(i + 1)
            ELSE [k \in 1..Len(operators[i].plans) |->
                     [op_name |-> operators[i].name, plan |-> operators[i].plans[k]]]
                 \o Walk(i + 1)
    IN  Walk(1)

\* price_sensitive_plan with "price <= cheapest_price" at line 577
price_sensitive_plan_last_cheapest(champion_plan, operators, usage_metrics) ==
    LET champion_price == PriceOf(champion_plan.price)
        data_download == float(usage_metrics.data_download).val
        plans == competitor_plans(operators)
        data_sufficient(plan) ==
            \/ plan.dataAllowance = Unlimited
            \/ LET plan_data == float(ReplaceAll(plan.dataAllowance, <<"G", "B">>, <<>>))
               IN  plan_data.exc = "" /\ ~DLess(plan_data.val, data_download)
        RECURSIVE Scan(_, _)
        Scan(k, cheapest) ==
            IF k > Len(plans) THEN cheapest
            ELSE LET plan == plans[k].plan
                     price == PriceOf(plan.price)
                 IN  IF DLeq(champion_price, price) THEN Scan(k + 1, cheapest)
                     ELSE IF /\ cheapest.operator /= "None" =>
                                    DLeq(price, PriceOf(cheapest.plan.price))
                             /\ data_sufficient(plan)
                          THEN Scan(k + 1,
                                    Tuple(plans[k].op_name, plan,
                                          [text |-> "monthly savings",
                                           amount |-> format_2f(DSub(champion_price, price))]))
                     ELSE Scan(k + 1, cheapest)
    IN  Returned(Scan(1, NoneTuple))

\* lines 554 to 592
price_sensitive_plan(champion_plan, operators, usage_metrics) ==
    LET champion_price == PriceOf(champion_plan.price)
        data_download == float(usage_metrics.data_download).val
        plans == competitor_plans(operators)
        data_sufficient(plan) ==
            \/ plan.dataAllowance = Unlimited
            \/ LET plan_data == float(ReplaceAll(plan.dataAllowance, <<"G", "B">>, <<>>))
               IN  plan_data.exc = "" /\ ~DLess(plan_data.val, data_download)
        RECURSIVE Scan(_, _)
        Scan(k, cheapest) ==
            IF k > Len(plans) THEN cheapest
            ELSE LET plan == plans[k].plan
                     price == PriceOf(plan.price)
                 IN  IF DLeq(champion_price, price) THEN Scan(k + 1, cheapest)
                     ELSE IF /\ cheapest.operator /= "None" =>
                                    DLess(price, PriceOf(cheapest.plan.price))
                             /\ data_sufficient(plan)
                          THEN Scan(k + 1,
                                    Tuple(plans[k].op_name, plan,
                                          [text |-> "monthly savings",
                                           amount |-> format_2f(DSub(champion_price, price))]))
                     ELSE Scan(k + 1, cheapest)
    IN  Returned(Scan(1, NoneTuple))

\* lines 687 to 697: the primary reason of a plan that takes the lead
feature_reason(plan, champion_plan, plan_hotspot_val, champion_hotspot_val) ==
    LET plan_intl == float(ReplaceAll(plan.international_data, LowerUnlimited, Thousand))
        champion_intl ==
            float(ReplaceAll(champion_plan.international_data, Unlimited, Thousand))
        plan_countries == plan.international_countries
        champion_countries == champion_plan.international_countries
    IN  IF plan.streamingQuality = "4K UHD" /\ champion_plan.streamingQuality /= "4K UHD"
        THEN Returned([text |-> "better streaming quality (4K UHD)"])
        ELSE IF plan_intl.exc /= "" \/ champion_intl.exc /= "" THEN Raised("ValueError")
        ELSE IF DLess(champion_intl.val, plan_intl.val)
             THEN Returned([text |-> "better international data allowance"])
        ELSE IF DLess(champion_hotspot_val, plan_hotspot_val)
             THEN Returned([text |-> "larger hotspot data allowance",
                            amount |-> <<plan_hotspot_val, champion_hotspot_val>>])
        ELSE IF /\ plan_countries /= <<>>
                /\ champion_countries = <<>> \/ Len(plan_countries) > Len(champion_countries)
             THEN Returned([text |-> "wider international coverage"])
        ELSE Returned([text |-> "better overall feature set"])

\* lines 595 to 700
feature_deficiency_plan(champion_plan, operators) ==
    LET champion_price == PriceOf(champion_plan.price)
        champion_streaming == champion_plan.streamingQuality
        plans == competitor_plans(operators)
        \* lines 623 to 639 and 650 to 666: the sentinel of "Unlimited", 0 for text
        \* that is no number
        Value(s) ==
            IF s = Unlimited THEN Num(1000)
            ELSE IF float(s).exc = "" THEN float(s).val ELSE Num(0)
        champion_intl_data_val == Value(champion_plan.international_data)
        champion_hotspot_val == Value(champion_plan.hotspot_data)
        champion_countries == champion_plan.international_countries
        feature_score(plan) ==
            LET streaming ==
                    IF plan.streamingQuality = "4K UHD" /\ champion_streaming /= "4K UHD"
                    THEN Num(2)
                    ELSE IF plan.streamingQuality = "HD" /\ champion_streaming = "SD"
                         THEN Num(1)
                    ELSE Num(0)
                plan_intl_data_val == Value(plan.international_data)
                international ==
                    IF DLess(champion_intl_data_val, plan_intl_data_val)
                    THEN DMin(Num(3), DFifth(DSub(plan_intl_data_val, champion_intl_data_val)))
                    ELSE Num(0)
                plan_hotspot_val == Value(plan.hotspot_data)
                hotspot ==
                    IF DLess(champion_hotspot_val, plan_hotspot_val)
                    THEN DMin(Num(2), DTenth(DSub(plan_hotspot_val, champion_hotspot_val)))
                    ELSE Num(0)
                plan_countries == plan.international_countries
                countries ==
                    IF /\ plan_countries /= <<>>
                       /\ \/ champion_countries = <<>>
                          \/ Len(plan_countries) > Len(champion_countries)
                    THEN Num(1)
                    ELSE Num(0)
            IN  DAdd(DAdd(streaming, international), DAdd(hotspot, countries))
        RECURSIVE Scan(_, _, _)
        Scan(k, best, best_feature_score) ==
            IF k > Len(plans)
            THEN IF best.operator /= "None" /\ DLess(Num(1), best_feature_score)
                 THEN Returned(best)
                 ELSE Returned(NoneTuple)
            ELSE LET plan == plans[k].plan
                     price == PriceOf(plan.price)
                     score == feature_score(plan)
                     reason == feature_reason(plan, champion_plan, Value(plan.hotspot_data),
                                              champion_hotspot_val)
                 IN  IF DLess(DMul(champion_price, Dec(13, 1)), price)
                     THEN Scan(k + 1, best, best_feature_score)
                     ELSE IF ~DLess(best_feature_score, score)
                          THEN Scan(k + 1, best, best_feature_score)
                     ELSE IF reason.exc /= "" THEN reason
                     ELSE Scan(k + 1, Tuple(plans[k].op_name, plan, reason.val), score)
    IN  Scan(1, NoneTuple, [m |-> 0 - 1, d |-> 0])

AlternateOperator == "Operator T"

\* lines 703 to 729
customer_service_plan(champion_plan, operators) ==
    LET champion_price == PriceOf(champion_plan.price)
        limit == DMul(champion_price, Dec(12, 1))
        reason == [text |-> "better customer service"]
        plans == PlansOf(operators, AlternateOperator)
        Matches(p) ==
            /\ DLeq(PriceOf(p.price), limit)
            /\ p.marketSegment = champion_plan.marketSegment
        Distance(p) == DAbs(DSub(PriceOf(p.price), champion_price))
        \* min() with a key returns the first of the nearest plans
        nearest ==
            plans[CHOOSE i \in 1..Len(plans) :
                     /\ \A j \in 1..Len(plans) : DLeq(Distance(plans[i]), Distance(plans[j]))
                     /\ \A j \in 1..(i - 1) : DLess(Distance(plans[i]), Distance(plans[j]))]
    IN  IF ~HasOperator(operators, AlternateOperator) THEN Returned(NoneTuple)
        ELSE IF SelectSeq(plans, Matches) /= <<>>
             THEN Returned(Tuple(AlternateOperator, Head(SelectSeq(plans, Matches)), reason))
        ELSE IF plans /= <<>>
             THEN Returned(Tuple(AlternateOperator, nearest, reason))
        ELSE Returned(NoneTuple)

\* lines 732 to 762.  The key of max() is the allowance string, or infinity for
\* "Unlimited": comparing a string with a number is a TypeError.
network_quality_plan(champion_plan, operators) ==
    LET champion_price == PriceOf(champion_plan.price)
        limit == DMul(champion_price, Dec(12, 1))
        reason == [text |-> "better network coverage in rural areas"]
        plans == PlansOf(operators, AlternateOperator)
        Affordable(p) == DLeq(PriceOf(p.price), limit)
        UnlimitedAffordable(p) == p.dataAllowance = Unlimited /\ Affordable(p)
        candidates == SelectSeq(plans, Affordable)
        Key(i) == candidates[i].dataAllowance
        \* max() with a key returns the first of the largest candidates
        largest ==
            candidates[CHOOSE i \in 1..Len(candidates) :
                          /\ \A j \in 1..Len(candidates) : ~StrLess(Key(i), Key(j))
                          /\ \A j \in 1..(i - 1) : StrLess(Key(j), Key(i))]
        mixed_keys ==
            /\ \E i \in 1..Len(candidates) : candidates[i].dataAllowance = Unlimited
            /\ \E i \in 1..Len(candidates) : candidates[i].dataAllowance /= Unlimited
    IN  IF ~HasOperator(operators, AlternateOperator) THEN Returned(NoneTuple)
        ELSE IF SelectSeq(plans, UnlimitedAffordable) /= <<>>
             THEN Returned(Tuple(AlternateOperator, Head(SelectSeq(plans, UnlimitedAffordable)),
                                 reason))
        ELSE IF candidates = <<>> THEN Returned(NoneTuple)
        ELSE IF mixed_keys THEN Raised("TypeError")
        ELSE Returned(Tuple(AlternateOperator, largest, reason))

\* lines 765 to 811.  A score is the fraction n / q with q > 0.
at_risk_plan(champion_plan, operators) ==
    LET champion_price == PriceOf(champion_plan.price)
        plans == competitor_plans(operators)
        Less(a, b) == a.n * b.q < b.n * a.q
        \* min(5, (c / p - 1) * 10), 0 for a price of 0
        price_advantage(c, p) ==
            IF p <= 0 THEN [n |-> 0, q |-> 1]
            ELSE IF 10 * (c - p) >= 5 * p THEN [n |-> 5, q |-> 1]
            ELSE [n |-> 10 * (c - p), q |-> p]
        \* the two prices as integers of one scale
        advantage_of(champion, price) ==
            price_advantage(champion.m * Pow10(price.d), price.m * Pow10(champion.d))
        bonus(plan) ==
            (IF plan.dataAllowance = Unlimited /\ champion_plan.dataAllowance /= Unlimited
             THEN 3 ELSE 0)
            + (IF plan.marketSegment = champion_plan.marketSegment THEN 2 ELSE 0)
        Sum(advantage, features) ==
            [n |-> advantage.n + features * advantage.q, q |-> advantage.q]
        value_score(plan, price) == Sum(advantage_of(champion_price, price), bonus(plan))
        reason_of(savings) ==
            IF DLess(Num(0), savings)
            THEN [text |-> "monthly savings with comparable features",
                  amount |-> format_2f(savings)]
            ELSE [text |-> "better overall value"]
        RECURSIVE Scan(_, _, _), Consider(_, _, _, _, _, _)
        Scan(k, best, best_value_score) ==
            IF k > Len(plans)
            THEN IF best.operator /= "None" /\ Less([n |-> 2, q |-> 1], best_value_score)
                 THEN Returned(best)
                 ELSE Returned(NoneTuple)
            ELSE Consider(k, best, best_value_score, plans[k].op_name, plans[k].plan,
                          PriceOf(plans[k].plan.price))
        \* lines 776 to 806: one plan of the loop
        Consider(k, best, best_value_score, op_name, plan, price) ==
            IF DLeq(champion_price, price) THEN Scan(k + 1, best, best_value_score)
            ELSE IF Less(best_value_score, value_score(plan, price))
                 THEN Scan(k + 1,
                           Tuple(op_name, plan, reason_of(DSub(champion_price, price))),
                           value_score(plan, price))
            ELSE Scan(k + 1, best, best_value_score)
    IN  Scan(1, NoneTuple, [n |-> 0 - 1, q |-> 1])

\* lines 528 to 814
find_better_competitor_plan(profile_type, champion_plan, operators, usage_metrics) ==
    CASE profile_type = "Price Sensitive" ->
           price_sensitive_plan(champion_plan, operators, usage_metrics)
      [] profile_type = "Feature Deficiency" -> feature_deficiency_plan(champion_plan, operators)
      [] profile_type = "Customer Service" -> customer_service_plan(champion_plan, operators)
      [] profile_type = "Network Quality" -> network_quality_plan(champion_plan, operators)
      [] profile_type = "At Risk" -> at_risk_plan(champion_plan, operators)
      [] OTHER -> Returned(NoneTuple)

----------------------------------------------------------------------------
(* find_reasons_to_stay.  The result is the reason, or "" for none.            *)

\* the customer types of a catalog, spelled out
Spelling ==
    [type \in {"Individual", "Family & CUG"} |->
        IF type = "Individual" THEN <<"I", "n", "d", "i", "v", "i", "d", "u", "a", "l">>
        ELSE <<"F", "a", "m", "i", "l", "y", " ", "&", " ", "C", "U", "G">>]

\* word in text
Contains(text, word) ==
    \E i \in 1..(Len(text) - Len(word) + 1) : SubSeq(text, i, i + Len(word) - 1) = word

\* line 900: "Family" in customerType or "CUG" in customerType
is_family_plan(plan) ==
    \/ Contains(Spelling[plan.customerType], <<"F", "a", "m", "i", "l", "y">>)
    \/ Contains(Spelling[plan.customerType], <<"C", "U", "G">>)

\* find_reasons_to_stay with the test of the segment before that of "Best Value"
find_reasons_to_stay_segment_first(profile_type, champion_plan, operators, usage_metrics) ==
    LET champion_price == PriceOf(champion_plan.price)
        plans == competitor_plans(operators)
        Competitors(Test(_)) == {k \in 1..Len(plans) : Test(plans[k].plan)}
        SameSegment(p) == p.marketSegment = champion_plan.marketSegment
        Streams4K(p) == p.streamingQuality = "4K UHD"
        CheaperUnlimited(p) ==
            p.dataAllowance = Unlimited /\ DLess(PriceOf(p.price), champion_price)
        CheaperFamily(p) == is_family_plan(p) /\ DLess(PriceOf(p.price), champion_price)
    IN  IF champion_plan.marketSegment /= "General" /\ Competitors(SameSegment) = {}
        THEN "exclusive benefits for the customers of the segment"
        ELSE IF champion_plan.popularity = "Best Value"
             THEN "optimum combination of price and features in our 'Best Value' plan"
        ELSE IF champion_plan.streamingQuality = "4K UHD" /\ Competitors(Streams4K) = {}
             THEN "exclusive 4K UHD streaming quality not offered by competitors"
        ELSE IF /\ champion_plan.streamingQuality = "4K UHD"
                /\ Cardinality(Competitors(Streams4K)) <= 2
             THEN "premium 4K UHD streaming quality offered by few competitors"
        ELSE IF champion_plan.dataAllowance = Unlimited /\ Competitors(CheaperUnlimited) = {}
             THEN "best price for unlimited data in the market"
        ELSE IF is_family_plan(champion_plan) /\ Competitors(CheaperFamily) = {}
             THEN "best value multi-line family plan"
        ELSE ""

\* lines 816 to 919
find_reasons_to_stay(profile_type, champion_plan, operators, usage_metrics) ==
    LET champion_price == PriceOf(champion_plan.price)
        plans == competitor_plans(operators)
        Competitors(Test(_)) == {k \in 1..Len(plans) : Test(plans[k].plan)}
        SameSegment(p) == p.marketSegment = champion_plan.marketSegment
        Streams4K(p) == p.streamingQuality = "4K UHD"
        CheaperUnlimited(p) ==
            p.dataAllowance = Unlimited /\ DLess(PriceOf(p.price), champion_price)
        CheaperFamily(p) == is_family_plan(p) /\ DLess(PriceOf(p.price), champion_price)
    IN  IF champion_plan.popularity = "Best Value"
        THEN "optimum combination of price and features in our 'Best Value' plan"
        ELSE IF champion_plan.marketSegment /= "General" /\ Competitors(SameSegment) = {}
             THEN "exclusive benefits for the customers of the segment"
        ELSE IF champion_plan.streamingQuality = "4K UHD" /\ Competitors(Streams4K) = {}
             THEN "exclusive 4K UHD streaming quality not offered by competitors"
        ELSE IF /\ champion_plan.streamingQuality = "4K UHD"
                /\ Cardinality(Competitors(Streams4K)) <= 2
             THEN "premium 4K UHD streaming quality offered by few competitors"
        ELSE IF champion_plan.dataAllowance = Unlimited /\ Competitors(CheaperUnlimited) = {}
             THEN "best price for unlimited data in the market"
        ELSE IF is_family_plan(champion_plan) /\ Competitors(CheaperFamily) = {}
             THEN "best value multi-line family plan"
        ELSE ""

----------------------------------------------------------------------------
(* generate_dynamic_insight.  An insight text is the template it is written    *)
(* from with the competitor plan and the reason written into it; NoText is the *)
(* None of a call that ends without a return statement.                        *)

NoText == [template |-> "None"]

\* lines 1020 to 1032: the fallback texts
customer_insights ==
    [type \in random_choice(ProfileTypes) |-> [template |-> "fallback", profile_type |-> type]]

\* lines 983 to 994 and 1005 to 1006: the text that names the competitor plan
competitor_text(profile_type, better) ==
    [template |-> "competitor", profile_type |-> profile_type,
     better_operator |-> better.operator, better_plan_name |-> better.plan.name,
     reason |-> better.reason]

\* lines 964 to 974
usage_metrics_of(record) ==
    [data_download |-> record.data_download,
     intl_data_upload |-> record.intl_data_upload,
     intl_data_download |-> record.intl_data_download]

\* lines 976 to 1017, for the champion plan found at lines 947 to 950
insight_for(record, champion_plan, operators, profile_type) ==
    LET usage_metrics == usage_metrics_of(record)
        Found(better) == better.operator \notin {"None", ""}
        \* lines 979 to 1003, with the outcome of the search at line 979
        churned_text(search) ==
            IF search.exc /= "" THEN search
            ELSE IF Found(search.val)
                 THEN IF profile_type \in {"Price Sensitive", "Feature Deficiency",
                                           "Customer Service", "Network Quality"}
                      THEN Returned(competitor_text(profile_type, search.val))
                      ELSE Returned(NoText)
            ELSE IF profile_type \in DOMAIN customer_insights
                 THEN Returned(customer_insights[profile_type])
            ELSE Raised("KeyError")
        \* lines 1004 to 1009, with the outcome of the search at line 1004
        at_risk_text(search) ==
            IF search.exc /= "" THEN search
            ELSE IF Found(search.val)
                 THEN Returned(competitor_text("At Risk", search.val))
            ELSE Returned([template |-> "at risk"])
        \* lines 1010 to 1017, with the reason found at line 1010
        loyal_text(loyalty_reason) ==
            IF loyalty_reason /= ""
            THEN Returned([template |-> "loyal", reason |-> loyalty_reason])
            ELSE Returned([template |-> "loyal"])
    IN  IF record.churn_status = "Churned"
        THEN churned_text(find_better_competitor_plan(profile_type, champion_plan, operators,
                                                      usage_metrics))
        ELSE IF record.churn_status = "At Risk"
             THEN at_risk_text(find_better_competitor_plan("At Risk", champion_plan, operators,
                                                           usage_metrics))
        ELSE loyal_text(find_reasons_to_stay(profile_type, champion_plan, operators,
                                             usage_metrics))

\* lines 921 to 1017.  None has no operators to look up (TypeError), a catalog
\* without the champion operator has no such key (KeyError), and the record
\* has no "productOffering.data" for the plan built at lines 954 to 961 when no
\* champion plan carries the record's plan name (KeyError).
generate_dynamic_insight(record, operators, profile_type) ==
    LET Named(p) == p.name = record.plan_name
    IN  IF operators = None THEN Raised("TypeError")
        ELSE IF ~HasOperator(operators, Champion) THEN Raised("KeyError")
        ELSE IF SelectSeq(PlansOf(operators, Champion), Named) = <<>> THEN Raised("KeyError")
        ELSE insight_for(record, Head(SelectSeq(PlansOf(operators, Champion), Named)),
                         operators, profile_type)

----------------------------------------------------------------------------
(* load_plans_from_csv.  A cell of the file is its text without surrounding    *)
(* blanks and a flag telling whether blanks surround it: strip() drops them,   *)
(* the truth value of the raw cell does not.  A row is a sequence of cells;    *)
(* column k of the code is element k + 1 of the sequence.                      *)

Cell(text) == [text |-> text, pad |-> FALSE]
Padded(text) == [text |-> text, pad |-> TRUE]

strip(cell) == cell.text

\* the columns whose text the program later reads character by character
CharColumns == {10, 11, 12, 13, 19, 28, 31, 33}

EmptyCell(k) == IF k \in CharColumns THEN Cell(<<>>) ELSE Cell("")

\* a row of n columns holding the given cells, empty cells elsewhere
MkRow(n, cells) == [i \in 1..n |-> IF (i - 1) \in DOMAIN cells THEN cells[i - 1] ELSE EmptyCell(i - 1)]

\* row[k]
At(row, k) == row[k + 1]

\* the plan a data row with the price found describes (lines 96 to 147)
plan_data(row, price) ==
    [planID |-> strip(At(row, 1)),
     name |-> strip(At(row, 9)),
     price |-> price,
     customerType |-> strip(At(row, 8)),
     dataAllowance |-> IF Len(row) > 19 THEN strip(At(row, 19)) ELSE <<>>,
     marketSegment |-> strip(At(row, 2)),
     streamingQuality |-> IF Len(row) > 27 THEN strip(At(row, 27)) ELSE "",
     businessType |-> strip(At(row, 3)),
     activationFee |-> IF Len(row) > 15 THEN strip(At(row, 15)) ELSE "0",
     popularity |-> strip(At(row, 5)),
     international_data |-> IF Len(row) > 28 THEN strip(At(row, 28)) ELSE <<>>,
     international_voice |-> IF Len(row) > 29 THEN strip(At(row, 29)) ELSE "",
     international_sms |-> IF Len(row) > 30 THEN strip(At(row, 30)) ELSE "",
     international_countries |-> IF Len(row) > 31 THEN strip(At(row, 31)) ELSE <<>>,
     hotspot_data |-> IF Len(row) > 33 THEN strip(At(row, 33)) ELSE <<>>]

\* the first non-empty price among columns i..13 of a family row: the price, no
\* price (<<>>), or an IndexError when the row ends before one is found
RECURSIVE family_price(_, _)
family_price(row, i) ==
    IF i > 13 THEN Returned(<<>>)
    ELSE IF Len(row) <= i THEN [exc |-> "IndexError", val |-> <<>>]
    ELSE IF strip(At(row, i)) /= <<>> THEN Returned(strip(At(row, i)))
    ELSE family_price(row, i + 1)

\* the price of a row of at least 10 columns (lines 82 to 90)
row_price(row) ==
    LET customer_type == strip(At(row, 8))
    IN  IF customer_type = "Individual"
        THEN IF Len(row) <= 10 THEN [exc |-> "IndexError", val |-> <<>>]
             ELSE IF At(row, 10).pad \/ At(row, 10).text /= <<>>
                  THEN Returned(strip(At(row, 10)))
                  ELSE Returned(<<>>)
        ELSE IF customer_type = "Family & CUG" THEN family_price(row, 11)
        ELSE Returned(<<>>)

\* operators[operator_name]["plans"].append(plan), the operator added when new
add_plan(operators, operator_name, plan) ==
    IF HasOperator(operators, operator_name)
    THEN [i \in 1..Len(operators) |->
            IF operators[i].name = operator_name
            THEN [operators[i] EXCEPT !.plans = Append(@, plan)]
            ELSE operators[i]]
    ELSE Append(operators, [name |-> operator_name, plans |-> <<plan>>])

\* the loop over the data rows (lines 68 to 153)
RECURSIVE read_rows(_, _)
read_rows(rows, operators) ==
    IF rows = <<>> THEN Returned(operators)
    ELSE LET row == Head(rows)
         IN  IF Len(row) < 10 THEN read_rows(Tail(rows), operators)
             ELSE LET price == row_price(row)
                  IN  IF price.exc /= "" THEN [exc |-> price.exc, val |-> <<>>]
                      ELSE IF price.val = <<>> THEN read_rows(Tail(rows), operators)
                      ELSE read_rows(Tail(rows),
                               add_plan(operators, strip(At(row, 0)), plan_data(row, price.val)))

\* the body of the try block: open the file, skip 5 rows, read the rest
load_body(file) ==
    IF ~file.exists THEN [exc |-> "FileNotFoundError", val |-> <<>>]
    ELSE IF Len(file.rows) < 5 THEN [exc |-> "StopIteration", val |-> <<>>]
    ELSE read_rows(SubSeq(file.rows, 6, Len(file.rows)), <<>>)

\* a variant without the except clause
load_plans_from_csv_propagating(file) == load_body(file)

load_plans_from_csv(file) ==
    LET body == load_body(file)
    IN  IF body.exc /= "" THEN Returned(get_default_operators) ELSE body

(* The rows the loader is exercised with *)

\* a row of the header and rules block
HeaderRow == MkRow(2, (0 :> Cell("Operator")))

RowIndividual ==
    MkRow(34, (0 :> Cell("Operator B (champion)") @@ 1 :> Cell("POCH045") @@ 2 :> Cell("General")
               @@ 3 :> Cell("prepaid") @@ 8 :> Padded("Individual") @@ 9 :> Cell("5GB Plan")
               @@ 10 :> Padded(<<"4", "0">>) @@ 15 :> Cell("35") @@ 19 :> Cell(<<"5", "G", "B">>)
               @@ 27 :> Cell("HD") @@ 28 :> Cell(<<"0">>) @@ 33 :> Cell(<<"5">>)))

RowFamily ==
    MkRow(34, (0 :> Cell("Operator T") @@ 1 :> Cell("POT030") @@ 2 :> Cell("Nurses")
               @@ 3 :> Cell("prepaid") @@ 8 :> Cell("Family & CUG") @@ 9 :> Cell("Go5G Family")
               @@ 12 :> Cell(<<"3", "0", "/", "l", "i", "n", "e">>) @@ 13 :> Cell(<<"2", "5">>)
               @@ 19 :> Cell(Unlimited) @@ 27 :> Cell("4K UHD") @@ 28 :> Cell(Unlimited)))

\* a priced Individual row that ends right after its price column
RowIndividualElevenColumns ==
    MkRow(11, (0 :> Cell("Operator T") @@ 1 :> Cell("POT001") @@ 2 :> Cell("General")
               @@ 8 :> Cell("Individual") @@ 9 :> Cell("Operator T 5G unlimited")
               @@ 10 :> Cell(<<"5", "5">>)))

RowEmpty == <<>>

RowThreeColumns == MkRow(3, (0 :> Cell("Operator T")))

RowIndividualNoPrice ==
    MkRow(34, (0 :> Cell("Operator T") @@ 1 :> Cell("POT002") @@ 8 :> Cell("Individual")
               @@ 9 :> Cell("Unpriced")))

RowIndividualBlankPrice ==
    MkRow(34, (0 :> Cell("Operator T") @@ 1 :> Cell("POT003") @@ 8 :> Cell("Individual")
               @@ 9 :> Cell("Blank price") @@ 10 :> Padded(<<>>)))

RowFamilyNoPrice ==
    MkRow(34, (0 :> Cell("Operator T") @@ 1 :> Cell("POT004") @@ 8 :> Cell("Family & CUG")
               @@ 9 :> Cell("Unpriced family")))

RowBusiness ==
    MkRow(34, (0 :> Cell("Operator T") @@ 1 :> Cell("POT005") @@ 8 :> Cell("Business")
               @@ 9 :> Cell("Business plan") @@ 10 :> Cell(<<"9", "0">>)))

\* an Individual row that ends before its price column
RowIndividualTenColumns ==
    MkRow(10, (0 :> Cell("Operator T") @@ 1 :> Cell("POT006") @@ 8 :> Cell("Individual")
               @@ 9 :> Cell("Cut short")))

\* a family row that ends before a non-empty price column
RowFamilyTwelveColumns ==
    MkRow(12, (0 :> Cell("Operator T") @@ 1 :> Cell("POT007") @@ 8 :> Cell("Family & CUG")
               @@ 9 :> Cell("Cut short family")))

\* rows that carry a plan: enough columns and a price for their customer type
WellFormedRows == {RowIndividual, RowFamily, RowIndividualElevenColumns}

\* rows with fewer than 10 columns
ShortRows == {RowEmpty, RowThreeColumns}

\* rows of 10 columns or more whose customer type has no price in the row
UnpricedRows == {RowIndividualNoPrice, RowIndividualBlankPrice, RowFamilyNoPrice, RowBusiness}

\* rows that end before the price columns their customer type reads
TruncatedRows == {RowIndividualTenColumns, RowFamilyTwelveColumns}

DataRows == WellFormedRows \cup ShortRows \cup UnpricedRows \cup TruncatedRows

RECURSIVE SeqsUpTo(_, _)
SeqsUpTo(S, n) ==
    IF n = 0 THEN {<<>>}
    ELSE LET shorter == SeqsUpTo(S, n - 1)
         IN  shorter \cup {Append(s, x) : s \in {t \in shorter : Len(t) = n - 1}, x \in S}

\* the rows the loader skips
HeaderRows == [i \in 1..5 |-> HeaderRow]

\* the files: a missing one, and 0 to 5 header rows followed by data rows
CsvFiles ==
    {[exists |-> FALSE, rows |-> <<>>]}
    \cup {[exists |-> TRUE, rows |-> SubSeq(HeaderRows, 1, h) \o data] :
            h \in 0..5, data \in SeqsUpTo(DataRows, MaxRows)}

----------------------------------------------------------------------------
(* The strings extract_price_numeric is exercised with *)

PriceChars == {"4", "0", "1", "5", ".", "$", "/", "l"}

RECURSIVE StringsUpTo(_)
StringsUpTo(n) ==
    IF n = 0 THEN {<<>>}
    ELSE LET shorter == StringsUpTo(n - 1)
         IN  shorter \cup {Append(s, c) : s \in {t \in shorter : Len(t) = n - 1}, c \in PriceChars}

SlashLine == <<"/", "l", "i", "n", "e">>

\* the strings the function is called with: every short string over PriceChars,
\* and each of them with "/line" appended or "$" put in front
PriceInputs ==
    LET short == StringsUpTo(MaxLen)
    IN  short \cup {s \o SlashLine : s \in short} \cup {<<"$">> \o s : s \in short}

NoResult == [exc |-> "none", val |-> Num(0)]
NotLoaded == [exc |-> "none", val |-> <<>>]

IdlePrice == price_str = <<>> /\ price_result = NoResult
IdleLoader == csv_file = [exists |-> FALSE, rows |-> <<>>] /\ load_result = NotLoaded
IdleRecord ==
    /\ gen_profile = ""
    /\ gen_churned = FALSE
    /\ gen_operators = None
    /\ gen_record = NotLoaded

----------------------------------------------------------------------------
(* The state of the parts a specification does not exercise *)

\* the file name of a save that has not been called, and the None a save of
\* nothing returns
NotSaved == [dir |-> "not called"]
NoFile == [dir |-> "None"]
Midnight == [date |-> 1, second |-> 0, tick |-> 0]

NoPlan == [name |-> "None"]
NoReason == [exc |-> "none", val |-> ""]

IdleInsight ==
    /\ insight = NotLoaded
    /\ current_plan = NoPlan
    /\ better_plan = NotLoaded
    /\ stay_reason = NoReason
IdleBatch ==
    /\ batch_count = 0
    /\ batch_operators = None
    /\ category_counts = [churned |-> 0, at_risk |-> 0, loyal |-> 0]
    /\ batch_records = [account_ids |-> EmptyBag, churn_statuses |-> EmptyBag]
    /\ batch_insights = [account_ids |-> EmptyBag, churn_statuses |-> EmptyBag]
    /\ batch_result = "returned"
IdleSave ==
    /\ now = Midnight
    /\ saved_records = 0
    /\ output_dir = {}
    /\ records_file = NotSaved
    /\ insights_file = NotSaved
IdleReplay ==
    /\ replay_count = 0
    /\ replay_operators = None
    /\ replay_draws = <<>>
    /\ replay_runs = <<>>
NoTime == [date |-> 0, second |-> 0]
NoRun == [op |-> "none", found |-> {}, keep_pairs |-> 0, returned |-> 0]
IdleDashboard ==
    /\ current_time = NoTime
    /\ csv_files = {}
    /\ matched_pairs = <<>>
    /\ last_run = NoRun
    /\ written_at = <<>>
    /\ operations = 0

----------------------------------------------------------------------------
(* extract_price_numeric called once on each input *)

InitPrice ==
    /\ price_str \in PriceInputs
    /\ price_result = NoResult
    /\ IdleLoader /\ IdleRecord /\ IdleInsight /\ IdleBatch /\ IdleSave /\ IdleReplay
    /\ IdleDashboard

ExtractPrice ==
    /\ price_result = NoResult
    /\ price_result' = extract_price_numeric(price_str)
    /\ UNCHANGED <<price_str, loaderVars, recordVars, insightVars, batchVars, saveVars, replayVars,
                   dashVars>>

NextPrice == ExtractPrice

SpecPrice == InitPrice /\ [][NextPrice]_vars

----------------------------------------------------------------------------
(* load_plans_from_csv called once on each file *)

InitLoader ==
    /\ csv_file \in CsvFiles
    /\ load_result = NotLoaded
    /\ IdlePrice /\ IdleRecord /\ IdleInsight /\ IdleBatch /\ IdleSave /\ IdleReplay
    /\ IdleDashboard

LoadPlans ==
    /\ load_result = NotLoaded
    /\ load_result' = load_plans_from_csv(csv_file)
    /\ UNCHANGED <<csv_file, priceVars, recordVars, insightVars, batchVars, saveVars, replayVars,
                   dashVars>>

NextLoader == LoadPlans

SpecLoader == InitLoader /\ [][NextLoader]_vars

----------------------------------------------------------------------------
(* The catalogs the generator is exercised with *)

\* a plan file with one champion plan and two plans of Operator T
PlanFile ==
    [exists |-> TRUE,
     rows |-> HeaderRows \o <<RowIndividual, RowFamily, RowIndividualElevenColumns>>]

\* the catalog load_plans_from_csv returns for PlanFile
LoadedCatalog == load_plans_from_csv(PlanFile).val

\* the default catalog with unlimited roaming data in Operator T's "Go5G Military"
RoamingCatalog ==
    [i \in 1..Len(get_default_operators) |->
        [get_default_operators[i] EXCEPT !.plans =
            [k \in 1..Len(@) |->
                IF @[k].planID = "POT012" THEN [@[k] EXCEPT !.international_data = Unlimited]
                ELSE @[k]]]]

\* the default catalog with Operator T's "Operator T 5G unlimited" at the price
\* of its "Go5G Military"
PriceMatchCatalog ==
    [i \in 1..Len(get_default_operators) |->
        [get_default_operators[i] EXCEPT !.plans =
            [k \in 1..Len(@) |->
                IF @[k].planID = "POT001" THEN [@[k] EXCEPT !.price = <<"3", "0">>]
                ELSE @[k]]]]

\* the default catalog with every champion plan in the segment General and
\* none flagged Best Value
PlainCatalog ==
    [i \in 1..Len(get_default_operators) |->
        IF get_default_operators[i].name /= Champion THEN get_default_operators[i]
        ELSE [get_default_operators[i] EXCEPT !.plans =
                 [k \in 1..Len(@) |->
                     [@[k] EXCEPT !.marketSegment = "General", !.popularity = ""]]]]

\* PlainCatalog without Operator T
IsNotAlternate(operator) == operator.name /= "Operator T"
PlainCatalogWithoutT == SelectSeq(PlainCatalog, IsNotAlternate)

\* the default catalog without the champion operator, and with a champion
\* operator that has no plans
IsNotChampion(operator) == operator.name /= Champion
CatalogWithoutChampion == SelectSeq(get_default_operators, IsNotChampion)
CatalogWithoutChampionPlans ==
    [i \in 1..Len(get_default_operators) |->
        IF get_default_operators[i].name = Champion
        THEN [get_default_operators[i] EXCEPT !.plans = <<>>]
        ELSE get_default_operators[i]]

\* the catalogs records are generated from, and those insights are composed
\* from
RecordCatalogs ==
    {None, get_default_operators, LoadedCatalog, CatalogWithoutChampion,
     CatalogWithoutChampionPlans}
Catalogs == {None, get_default_operators, LoadedCatalog, RoamingCatalog}
InsightCatalogs == Catalogs \cup {PriceMatchCatalog, PlainCatalog, PlainCatalogWithoutT}

----------------------------------------------------------------------------
(* generate_synthetic_record called once for each profile type, outcome and    *)
(* catalog                                                                     *)

\* a profile type that is not in customer_profiles
UnknownProfile == "Premium Seeker"

InitRecord ==
    /\ gen_profile \in random_choice(ProfileTypes) \cup {UnknownProfile}
    /\ gen_churned \in BOOLEAN
    /\ gen_operators \in RecordCatalogs
    /\ gen_record = NotLoaded
    /\ IdlePrice /\ IdleLoader /\ IdleInsight /\ IdleBatch /\ IdleSave /\ IdleReplay
    /\ IdleDashboard

GenerateSyntheticRecord ==
    /\ gen_record = NotLoaded
    /\ gen_record' \in generate_synthetic_record(gen_profile, gen_churned, gen_operators)
    /\ gen_operators' = catalog_after_record(gen_profile, gen_operators)
    /\ UNCHANGED <<gen_profile, gen_churned, priceVars, loaderVars, insightVars, batchVars,
                   saveVars, replayVars, dashVars>>

NextRecord == GenerateSyntheticRecord

SpecRecord == InitRecord /\ [][NextRecord]_vars

----------------------------------------------------------------------------
(* generate_dynamic_insight, find_better_competitor_plan and                   *)
(* find_reasons_to_stay called on a generated record.  None reads the income,  *)
(* the CLTV, the roaming voice and SMS, the satisfaction or the complaints of  *)
(* the record for anything but the wording of the text, so the records start   *)
(* with one draw of each.                                                      *)

any_of(draws) == CHOOSE draw \in draws : TRUE

insight_records(profile_type, is_churned, operators) ==
    {record_of(selected_plan, any_of(income_and_cltv(profile_type)), data_download,
               any_of(international_usage(customer_profiles[profile_type].international)),
               any_of(satisfaction_and_complaints(profile_type, is_churned)), churn) :
        selected_plan \in select_appropriate_plan(profile_type,
                                                  all_available_plans(operators), is_churned),
        data_download \in data_download_of(profile_type),
        churn \in churn_outcome(profile_type, is_churned)}

InitInsight ==
    /\ gen_profile \in random_choice(ProfileTypes)
    /\ gen_churned \in BOOLEAN
    /\ \E catalog \in InsightCatalogs :
          /\ gen_operators = catalog_after_selection(catalog)
          /\ gen_record \in
                {Returned(r) : r \in insight_records(gen_profile, gen_churned, catalog)}
    /\ insight = NotLoaded
    /\ current_plan = NoPlan
    /\ better_plan = NotLoaded
    /\ stay_reason = NoReason
    /\ IdlePrice /\ IdleLoader /\ IdleBatch /\ IdleSave /\ IdleReplay
    /\ IdleDashboard

GenerateDynamicInsight ==
    /\ insight = NotLoaded
    /\ insight' = generate_dynamic_insight(gen_record.val, gen_operators, gen_profile)
    /\ UNCHANGED <<current_plan, better_plan, stay_reason, priceVars, loaderVars,
                   recordVars, batchVars, saveVars, replayVars, dashVars>>

\* find_better_competitor_plan called with any champion plan of the catalog
FindBetterCompetitorPlan ==
    /\ current_plan = NoPlan
    /\ HasOperator(gen_operators, Champion)
    /\ current_plan' \in random_choice(PlansOf(gen_operators, Champion))
    /\ better_plan' =
           find_better_competitor_plan(gen_profile, current_plan', gen_operators,
                                       usage_metrics_of(gen_record.val))
    /\ UNCHANGED <<insight, stay_reason, priceVars, loaderVars, recordVars, batchVars,
                   saveVars, replayVars, dashVars>>

\* find_reasons_to_stay called with any champion plan of the catalog
FindReasonsToStay ==
    /\ current_plan = NoPlan
    /\ HasOperator(gen_operators, Champion)
    /\ current_plan' \in random_choice(PlansOf(gen_operators, Champion))
    /\ stay_reason' =
           Returned(find_reasons_to_stay(gen_profile, current_plan', gen_operators,
                                         usage_metrics_of(gen_record.val)))
    /\ UNCHANGED <<insight, better_plan, priceVars, loaderVars, recordVars, batchVars,
                   saveVars, replayVars, dashVars>>

NextInsight == GenerateDynamicInsight \/ FindBetterCompetitorPlan \/ FindReasonsToStay

SpecInsight == InitInsight /\ [][NextInsight]_vars

----------------------------------------------------------------------------
(* generate_multiple_records.  Each pass of the loop at lines 1341 to 1378 is  *)
(* a step.  Of the records and of the insights the model keeps the account IDs *)
(* and the churn statuses, each without their order.                           *)

\* lines 1312 to 1316
customer_distribution ==
    [churned |-> <<"Price Sensitive", "Feature Deficiency", "Customer Service",
                   "Network Quality">>,
     at_risk |-> <<"At Risk">>,
     loyal |-> <<"Loyal Customer">>]

\* lines 1329 to 1333: int(count * 0.4) and int(count * 0.1), which are the
\* whole parts of 4 * count / 10 and count / 10 for the counts of the model
min_category_counts(count) ==
    [churned |-> (4 * count) \div 10, at_risk |-> count \div 10, loyal |-> count \div 10]

\* lines 1343 to 1351
next_category(counts, count) ==
    IF counts.churned < min_category_counts(count).churned THEN {"churned"}
    ELSE IF counts.at_risk < min_category_counts(count).at_risk THEN {"at_risk"}
    ELSE IF counts.loyal < min_category_counts(count).loyal THEN {"loyal"}
    ELSE random_choice(<<"churned", "churned", "at_risk", "loyal">>)

\* lines 31 to 36: an account ID is 9 characters drawn out of 36, here the
\* number of the ID in the order of the IDs
generate_account_id == 0..MaxAccountId

\* lines 1321 and 1322: the empty lists
NoEntries == [account_ids |-> EmptyBag, churn_statuses |-> EmptyBag]

\* lines 1365 and 1378: append() of a record, or of the insight that copies the
\* account ID and the churn status of the record (lines 1371 to 1373)
append(entries, account_id, churn_status) ==
    [account_ids |-> entries.account_ids (+) SetToBag({account_id}),
     churn_statuses |-> entries.churn_statuses (+) SetToBag({churn_status})]

\* len()
len(entries) == BagCardinality(entries.churn_statuses)

\* the catalogs handed to generate_multiple_records
BatchCatalogs == Catalogs \cup {CatalogWithoutChampion, CatalogWithoutChampionPlans}

\* lines 1364 to 1377, for each catalog as it is before and after a call: the
\* churn status of the record and how the composition of its insight ends
record_and_insight ==
    [operators \in BatchCatalogs \cup {catalog_after_selection(c) : c \in BatchCatalogs},
     profile_type \in random_choice(ProfileTypes), is_churned \in BOOLEAN |->
        {[churn_status |-> r.churn_status,
          exc |-> generate_dynamic_insight(r, catalog_after_selection(operators),
                                           profile_type).exc] :
            r \in insight_records(profile_type, is_churned, operators)}]

InitBatch ==
    /\ batch_count \in 1..MaxCount
    /\ batch_operators \in BatchCatalogs
    /\ category_counts = [churned |-> 0, at_risk |-> 0, loyal |-> 0]
    /\ batch_records = NoEntries
    /\ batch_insights = NoEntries
    /\ batch_result = "running"
    /\ IdlePrice /\ IdleLoader /\ IdleRecord /\ IdleInsight /\ IdleSave /\ IdleReplay
    /\ IdleDashboard

\* one pass of the loop: the record is appended before its insight is composed
GenerateRecordAndInsight ==
    /\ batch_result = "running"
    /\ len(batch_records) < batch_count
    /\ \E category \in next_category(category_counts, batch_count) :
       \E profile_type \in random_choice(customer_distribution[category]) :
       \E outcome \in record_and_insight[batch_operators, profile_type, category = "churned"] :
       \E account_id \in generate_account_id :
          /\ category_counts' = [category_counts EXCEPT ![category] = @ + 1]
          /\ batch_records' = append(batch_records, account_id, outcome.churn_status)
          /\ IF outcome.exc = ""
             THEN /\ batch_insights' =
                        append(batch_insights, account_id, outcome.churn_status)
                  /\ UNCHANGED batch_result
             ELSE /\ batch_result' = outcome.exc
                  /\ UNCHANGED batch_insights
    /\ batch_operators' = catalog_after_selection(batch_operators)
    /\ UNCHANGED <<batch_count, priceVars, loaderVars, recordVars, insightVars, saveVars, replayVars,
                   dashVars>>

\* line 1392, after the loop
ReturnRecordsAndInsights ==
    /\ batch_result = "running"
    /\ len(batch_records) = batch_count
    /\ batch_result' = "returned"
    /\ UNCHANGED <<batch_count, batch_operators, category_counts, batch_records,
                   batch_insights, priceVars, loaderVars, recordVars, insightVars, saveVars, replayVars,
                   dashVars>>

NextBatch == GenerateRecordAndInsight \/ ReturnRecordsAndInsights

SpecBatch == InitBatch /\ [][NextBatch]_vars

----------------------------------------------------------------------------
(* generate_multiple_records run twice with the same count, on the same        *)
(* catalog object and with the same values from the random source.  The first  *)
(* run notes what the random source gives it in each pass of the loop; the     *)
(* second run is given the same.  The choice of a plan is noted as the number  *)
(* the random source gave for it, a choice from a list of the code or a value  *)
(* drawn between limits of the code as what was chosen.  Of a record the runs  *)
(* keep what insight_records keeps, of an insight the churn status, the        *)
(* profile type and the text.                                                  *)

\* lines 16 to 18: random.choice(values) when the random source gives draw
choice_at(values, draw) == values[(draw % Len(values)) + 1]

\* lines 1343 to 1351, with the category the random source picks at line 1351
category_at(counts, count, drawn) ==
    IF counts.churned < min_category_counts(count).churned THEN "churned"
    ELSE IF counts.at_risk < min_category_counts(count).at_risk THEN "at_risk"
    ELSE IF counts.loyal < min_category_counts(count).loyal THEN "loyal"
    ELSE drawn

\* lines 1319 to 1339: the lists and the counters before the loop
NewRun ==
    [category_counts |-> [churned |-> 0, at_risk |-> 0, loyal |-> 0],
     records |-> <<>>, insights |-> <<>>, result |-> "running"]

\* what the random source can give after it picked the category and the
\* profile type: the number for the choice of the plan, and the values drawn
draws_of(operators, category, profile_type) ==
    {[category |-> category, profile_type |-> profile_type, plan |-> plan_draw,
      data_download |-> data_download, churn |-> churn] :
        plan_draw \in 0..(Len(plans_to_choose_from(
                                 profile_type, all_available_plans(operators),
                                 category = "churned")) - 1),
        data_download \in data_download_of(profile_type),
        churn \in churn_outcome(profile_type, category = "churned")}

\* what the random source can give in a pass of the loop of a run
pass_draws(run, count, operators) ==
    UNION {UNION {draws_of(operators, category, profile_type) :
                     profile_type \in random_choice(customer_distribution[category])} :
              category \in next_category(run.category_counts, count)}

\* lines 1365 to 1378: the run with the record and, unless composing it raised,
\* the insight appended
pass_with_insight(run, category, profile_type, record, text) ==
    [category_counts |-> [run.category_counts EXCEPT ![category] = @ + 1],
     records |-> Append(run.records, record),
     insights |->
         IF text.exc /= "" THEN run.insights
         ELSE Append(run.insights,
                     [churn_status |-> record.churn_status, profile_type |-> profile_type,
                      insight |-> text.val]),
     result |-> IF text.exc /= "" THEN text.exc ELSE "running"]

\* lines 1369 to 1377: the insight is composed after the record was generated
pass_with_record(run, operators, category, profile_type, record) ==
    pass_with_insight(run, category, profile_type, record,
                      generate_dynamic_insight(record, catalog_after_selection(operators),
                                               profile_type))

\* line 1364
pass_with_profile(run, operators, draw, category, profile_type) ==
    pass_with_record(run, operators, category, profile_type,
                     record_of(choice_at(plans_to_choose_from(
                                             profile_type, all_available_plans(operators),
                                             category = "churned"),
                                         draw.plan),
                               any_of(income_and_cltv(profile_type)),
                               draw.data_download,
                               any_of(international_usage(
                                          customer_profiles[profile_type].international)),
                               any_of(satisfaction_and_complaints(profile_type,
                                                                  category = "churned")),
                               draw.churn))

\* lines 1355 to 1359
pass_with_category(run, operators, draw, category) ==
    pass_with_profile(run, operators, draw, category, draw.profile_type)

\* lines 1341 to 1378: one pass of the loop of a run, given what the random
\* source gives in it
loop_pass(run, count, operators, draw) ==
    pass_with_category(run, operators, draw,
                       category_at(run.category_counts, count, draw.category))

InitReplay ==
    /\ replay_count \in 1..MaxReplay
    /\ replay_operators \in Catalogs
    /\ replay_draws = <<>>
    /\ replay_runs = <<NewRun>>
    /\ IdlePrice /\ IdleLoader /\ IdleRecord /\ IdleInsight /\ IdleBatch /\ IdleSave
    /\ IdleDashboard

\* the run in progress has passes left
InLoop(run) == run.result = "running" /\ Len(run.records) < replay_count

\* a pass of the first run
FirstRunPass ==
    /\ Len(replay_runs) = 1
    /\ InLoop(replay_runs[1])
    /\ \E draw \in pass_draws(replay_runs[1], replay_count, replay_operators) :
          /\ replay_draws' = Append(replay_draws, draw)
          /\ replay_runs' =
                <<loop_pass(replay_runs[1], replay_count, replay_operators, draw)>>
    /\ replay_operators' = catalog_after_selection(replay_operators)
    /\ UNCHANGED <<replay_count, priceVars, loaderVars, recordVars, insightVars, batchVars,
                   saveVars, dashVars>>

\* line 1392, or the exception that ended the loop: the run is over, and the
\* second run begins on the catalog the first one leaves
RunAgain ==
    /\ Len(replay_runs) = 1
    /\ ~InLoop(replay_runs[1])
    /\ replay_runs' = Append(replay_runs, NewRun)
    /\ UNCHANGED <<replay_count, replay_operators, replay_draws, priceVars, loaderVars,
                   recordVars, insightVars, batchVars, saveVars, dashVars>>

\* a pass of the second run
SecondRunPass ==
    /\ Len(replay_runs) = 2
    /\ InLoop(replay_runs[2])
    /\ replay_runs' =
           [replay_runs EXCEPT ![2] =
               loop_pass(@, replay_count, replay_operators,
                         replay_draws[Len(replay_runs[2].records) + 1])]
    /\ replay_operators' = catalog_after_selection(replay_operators)
    /\ UNCHANGED <<replay_count, replay_draws, priceVars, loaderVars, recordVars,
                   insightVars, batchVars, saveVars, dashVars>>

NextReplay == FirstRunPass \/ RunAgain \/ SecondRunPass

SpecReplay == InitReplay /\ [][NextReplay]_vars

----------------------------------------------------------------------------
(* save_records_to_csv and save_insights_to_csv, called one after the other    *)
(* as main and generate_fresh_data do, while the clock runs.  A file name is   *)
(* its directory, its base name and the timestamp written into it.             *)

\* strftime('%Y%m%d_%H%M%S'): the date and the time of day in whole seconds
strftime(time) == [date |-> time.date, time |-> time.second]

\* os.path.join(output_dir, f"{base_filename}_{timestamp}.csv")
file_name(base_filename, time) ==
    [dir |-> "output", base |-> base_filename, timestamp |-> strftime(time)]

\* the reading that follows a reading of the clock
next_reading(time) ==
    IF time.tick + 1 < TicksPerSecond THEN [time EXCEPT !.tick = @ + 1]
    ELSE IF time.second + 1 < SecondsPerDay
         THEN [time EXCEPT !.tick = 0, !.second = @ + 1]
    ELSE [date |-> time.date + 1, second |-> 0, tick |-> 0]

InitSave ==
    /\ now = Midnight
    /\ saved_records \in {0, MaxCount}
    /\ output_dir = {}
    /\ records_file = NotSaved
    /\ insights_file = NotSaved
    /\ IdlePrice /\ IdleLoader /\ IdleRecord /\ IdleInsight /\ IdleBatch /\ IdleReplay
    /\ IdleDashboard

Tick ==
    /\ next_reading(now).date <= MaxDays
    /\ now' = next_reading(now)
    /\ UNCHANGED <<saved_records, output_dir, records_file, insights_file, priceVars,
                   loaderVars, recordVars, insightVars, batchVars, replayVars,
                   dashVars>>

\* lines 1394 to 1418
SaveRecordsToCsv ==
    /\ records_file = NotSaved
    /\ IF saved_records = 0
       THEN records_file' = NoFile /\ UNCHANGED output_dir
       ELSE /\ records_file' = file_name("telecom_customer_records", now)
            /\ output_dir' = output_dir \cup {records_file'}
    /\ UNCHANGED <<now, saved_records, insights_file, priceVars, loaderVars, recordVars,
                   insightVars, batchVars, replayVars, dashVars>>

\* lines 1426 to 1450, called after save_records_to_csv has returned
SaveInsightsToCsv ==
    /\ records_file /= NotSaved
    /\ insights_file = NotSaved
    /\ IF saved_records = 0
       THEN insights_file' = NoFile /\ UNCHANGED output_dir
       ELSE /\ insights_file' = file_name("telecom_customer_insights", now)
            /\ output_dir' = output_dir \cup {insights_file'}
    /\ UNCHANGED <<now, saved_records, records_file, priceVars, loaderVars, recordVars,
                   insightVars, batchVars, replayVars, dashVars>>

NextSave == Tick \/ SaveRecordsToCsv \/ SaveInsightsToCsv

SpecSave == InitSave /\ [][NextSave]_vars

----------------------------------------------------------------------------
(* The dashboard's sidebar: generate_fresh_data, delete_all_data_files,        *)
(* delete_older_data_files(keep_pairs) and the refresh of the file list, on    *)
(* the *.csv files of the output directory while the clock runs.  A file is    *)
(* its name, as save_records_to_csv and save_insights_to_csv build it, and the *)
(* time it was last written.  The directory starts with the pairs that earlier *)
(* runs of the generator's main left in it, one a day.                         *)

\* seconds of a day, and seconds between two readings of the dashboard's clock
SecondsOfDay == 86400
ReadingStep == 60

\* the time of day at which the earlier runs of the generator wrote their files
EarlierRunSecond == ReadingStep

FirstSessionDay == MaxEarlierPairs + 1

\* how many pairs the earlier runs left, and the keep_pairs handed to
\* delete_older_data_files: none, few, the five of main, many
EarlierPairs == 0..2 \cup {MaxEarlierPairs}
KeepPairs == 0..1 \cup {5, MaxKeepPairs}

\* (current_time - file_mod_time).total_seconds()
total_seconds(later, earlier) ==
    (later.date - earlier.date) * SecondsOfDay + later.second - earlier.second

\* the file a save function writes at a time, and the directory after the write
csv_file_at(base_filename, time) ==
    [name |-> file_name(base_filename, time), mtime |-> time]

written(files, file) == {f \in files : f.name /= file.name} \cup {file}

\* the pair of files main wrote on a day
earlier_pair(day) ==
    LET time == [date |-> day, second |-> EarlierRunSecond]
    IN  {csv_file_at("telecom_customer_records", time),
         csv_file_at("telecom_customer_insights", time)}

\* filename.split('_')[-1].split('.')[0]: of ..._YYYYMMDD_HHMMSS.csv the part
\* after the last underscore, which is the time of day
extract_timestamp_string(filename) == filename.timestamp.time

\* place of a file name in the order of names
NameOrder(filename) == filename.timestamp.date * SecondsOfDay + filename.timestamp.time

\* the order in which the directory lists two names
Listings == {"ascending", "descending"}

listed_before(name, other, listing) ==
    IF listing = "ascending" THEN NameOrder(name) < NameOrder(other)
    ELSE NameOrder(name) > NameOrder(other)

\* glob.glob(os.path.join(directory, base + '_*.csv')): the names of the files
\* of a kind
glob(files, base) == {f.name : f \in {g \in files : g.name.base = base}}

\* the names of a timestamp string that the directory lists last
last_listed(names, listing) ==
    IF names = {} THEN NoFile
    ELSE CHOOSE n \in names : \A m \in names : ~listed_before(n, m, listing)

\* lines 318 to 322: the last insights file listed with each timestamp string
insights_by_timestamp(insights_files, timestamp, listing) ==
    last_listed({n \in insights_files : extract_timestamp_string(n) = timestamp},
                listing)

\* lines 325 to 334
pair_of(records_name, insights_files, listing) ==
    [timestamp |-> extract_timestamp_string(records_name),
     records_file |-> records_name,
     insights_file |-> insights_by_timestamp(insights_files,
                                             extract_timestamp_string(records_name),
                                             listing)]

has_insights(pair) == pair.insights_file /= NoFile

\* lines 310 to 334: a pair for every records file whose timestamp string an
\* insights file carries
pairs_of(records_files, insights_files, listing) ==
    {pair \in {pair_of(r, insights_files, listing) : r \in records_files} :
         has_insights(pair)}

\* sorted(matched_pairs, key=lambda x: x['timestamp'], reverse=True): pairs of
\* one timestamp string stay in the order the records files were listed in
sorts_before(pair, other, listing) ==
    \/ pair.timestamp > other.timestamp
    \/ /\ pair.timestamp = other.timestamp
       /\ listed_before(pair.records_file, other.records_file, listing)

places(pairs, listing) ==
    [pair \in pairs |->
         Cardinality({other \in pairs : sorts_before(other, pair, listing)}) + 1]

placed(pairs, place) ==
    [i \in 1..Cardinality(pairs) |-> CHOOSE pair \in pairs : place[pair] = i]

sorted_newest_first(pairs, listing) == placed(pairs, places(pairs, listing))

\* lines 299 to 342
get_matching_csv_files(files, listing) ==
    sorted_newest_first(pairs_of(glob(files, "telecom_customer_records"),
                                 glob(files, "telecom_customer_insights"), listing),
                        listing)

\* lines 60 to 98: "allowed", or the limit that refuses the generation
check_generation_limits(files, time) ==
    IF Cardinality(files) >= 40 THEN "too many files"
    ELSE IF Cardinality({f \in files : total_seconds(time, f.mtime) < 120}) >= 2
         THEN "generated recently"
    ELSE "allowed"

\* lines 136 to 147: the files of the first keep_pairs pairs
files_to_keep(pairs, keep_pairs) ==
    UNION {{pairs[i].records_file, pairs[i].insights_file} :
               i \in 1..Min(keep_pairs, Len(pairs))}

\* lines 149 to 155: every file is removed but those to keep
without_others(files, kept) == {f \in files : f.name \in kept}

\* lines 120 to 157: the files delete_older_data_files leaves
delete_older_data_files(files, keep_pairs, listing) ==
    without_others(files,
                   files_to_keep(get_matching_csv_files(files, listing), keep_pairs))

\* the reading that follows a reading of the dashboard's clock
next_time(time) ==
    IF time.second + ReadingStep < ReadingsPerDay * ReadingStep
    THEN [time EXCEPT !.second = @ + ReadingStep]
    ELSE [date |-> time.date + 1, second |-> 0]

\* when the last two generations that wrote files were started
last_two(times, time) ==
    IF times = <<>> THEN <<time>> ELSE <<times[Len(times)], time>>

InitDashboard ==
    /\ current_time = [date |-> FirstSessionDay, second |-> 0]
    /\ \E pairs \in EarlierPairs :
           csv_files = UNION {earlier_pair(day) : day \in 1..pairs}
    /\ \E listing \in Listings : matched_pairs = get_matching_csv_files(csv_files, listing)
    /\ last_run = NoRun
    /\ written_at = <<>>
    /\ operations = 0
    /\ IdlePrice /\ IdleLoader /\ IdleRecord /\ IdleInsight /\ IdleBatch /\ IdleSave
    /\ IdleReplay

Wait ==
    /\ next_time(current_time).date < FirstSessionDay + SessionDays
    /\ current_time' = next_time(current_time)
    /\ UNCHANGED <<csv_files, matched_pairs, last_run, written_at, operations, priceVars,
                   loaderVars, recordVars, insightVars, batchVars, saveVars, replayVars>>

\* lines 160 to 203 and the run of main that follows: the generation is refused,
\* or the generator raises and nothing is written, or the two files are
\* written, the second one in the same second or in the next
GenerateFreshData ==
    /\ operations < MaxOperations
    /\ operations' = operations + 1
    /\ \E outcome \in {"written", "failed"}, turn \in {0, 1} :
           LET reason == check_generation_limits(csv_files, current_time)
               later == [current_time EXCEPT !.second = @ + turn]
           IN  IF reason /= "allowed"
               THEN /\ last_run' = [op |-> "generate", found |-> csv_files,
                                    keep_pairs |-> 0, returned |-> reason]
                    /\ UNCHANGED <<csv_files, written_at>>
               ELSE IF outcome = "failed"
               THEN /\ last_run' = [op |-> "generate", found |-> csv_files,
                                    keep_pairs |-> 0, returned |-> "failed"]
                    /\ UNCHANGED <<csv_files, written_at>>
               ELSE /\ csv_files' =
                           written(written(csv_files,
                                           csv_file_at("telecom_customer_records",
                                                       current_time)),
                                   csv_file_at("telecom_customer_insights", later))
                    /\ last_run' = [op |-> "generate", found |-> csv_files,
                                    keep_pairs |-> 0, returned |-> "written"]
                    /\ written_at' = last_two(written_at, current_time)
    /\ \E listing \in Listings : matched_pairs' = get_matching_csv_files(csv_files', listing)
    /\ UNCHANGED <<current_time, priceVars, loaderVars, recordVars, insightVars, batchVars,
                   saveVars, replayVars>>

\* lines 101 to 117, and the run of main that follows
DeleteAllDataFiles ==
    /\ operations < MaxOperations
    /\ operations' = operations + 1
    /\ csv_files' = {}
    /\ last_run' = [op |-> "delete_all", found |-> csv_files, keep_pairs |-> 0,
                    returned |-> Cardinality(csv_files)]
    /\ matched_pairs' = <<>>
    /\ UNCHANGED <<current_time, written_at, priceVars, loaderVars, recordVars,
                   insightVars, batchVars, saveVars, replayVars>>

\* lines 120 to 157, and the run of main that follows
DeleteOlderDataFiles ==
    /\ operations < MaxOperations
    /\ operations' = operations + 1
    /\ \E keep_pairs \in KeepPairs, listing \in Listings :
           /\ csv_files' = delete_older_data_files(csv_files, keep_pairs, listing)
           /\ last_run' = [op |-> "delete_older", found |-> csv_files,
                           keep_pairs |-> keep_pairs,
                           returned |-> Cardinality(csv_files) - Cardinality(csv_files')]
           /\ matched_pairs' = get_matching_csv_files(csv_files', listing)
    /\ UNCHANGED <<current_time, written_at, priceVars, loaderVars, recordVars,
                   insightVars, batchVars, saveVars, replayVars>>

\* the Refresh File List button: main runs again and lists the pairs
RefreshFileList ==
    /\ operations < MaxOperations
    /\ operations' = operations + 1
    /\ \E listing \in Listings : matched_pairs' = get_matching_csv_files(csv_files, listing)
    /\ last_run' = [op |-> "refresh", found |-> csv_files, keep_pairs |-> 0,
                    returned |-> Len(matched_pairs')]
    /\ UNCHANGED <<current_time, csv_files, written_at, priceVars, loaderVars, recordVars,
                   insightVars, batchVars, saveVars, replayVars>>

NextDashboard ==
    Wait \/ GenerateFreshData \/ DeleteAllDataFiles \/ DeleteOlderDataFiles
        \/ RefreshFileList

SpecDashboard == InitDashboard /\ [][NextDashboard]_vars

----------------------------------------------------------------------------
(* Claims *)

Generated == gen_record.exc = ""

\* C1: a generated record is Churned exactly when its churn category and churn
\* reason are both non-empty and its churn score lies in 70..100.
C1_ChurnedIffLabelled ==
    Generated =>
        (gen_record.val.churn_status = "Churned"
            <=> (/\ gen_record.val.churn_category /= ""
                 /\ gen_record.val.churn_reason /= ""
                 /\ gen_record.val.churn_score \in 70..100))

\* C2: an At Risk record scores in 45..85, a Not Churned record in 5..45, and
\* the status is one of Not Churned, At Risk, Churned.
C2_ScoreRanges ==
    Generated =>
        /\ gen_record.val.churn_status \in {"Not Churned", "At Risk", "Churned"}
        /\ gen_record.val.churn_status = "At Risk" => gen_record.val.churn_score \in 45..85
        /\ gen_record.val.churn_status = "Not Churned" => gen_record.val.churn_score \in 5..45

\* C2 witness: records of both kinds of At Risk score and of both kinds of Not
\* Churned score were generated.
C2_Witness ==
    /\ Generated
    /\ gen_record.val.churn_status = "At Risk"
    /\ gen_record.val.churn_score = 45
    /\ gen_profile = "Feature Deficiency"

\* C3: CLTV lies in the half-open band of the income level: Low in [1000, 3000),
\* Medium in [3000, 6000), High in [6000, 12000).
C3_CltvBands ==
    Generated =>
        /\ gen_record.val.income = "Low" => gen_record.val.cltv \in 1000..2999
        /\ gen_record.val.income = "Medium" => gen_record.val.cltv \in 3000..5999
        /\ gen_record.val.income = "High" => gen_record.val.cltv \in 6000..11999

\* C4: a record of a profile whose international tier is Low has zero roaming
\* voice, data upload, data download and SMS; the other tiers draw them from
\* their ranges.
C4_NoRoamingForLowTier ==
    Generated =>
        LET r == gen_record.val
            tier == customer_profiles[gen_profile].international
            upload == float(r.intl_data_upload).val
            download == float(r.intl_data_download).val
        IN  /\ tier = "Low" =>
                  /\ r.intl_voice = 0
                  /\ upload = Num(0)
                  /\ download = Num(0)
                  /\ r.intl_sms = 0
            /\ tier = "Medium" =>
                  /\ r.intl_voice \in 20..100
                  /\ DLeq(Dec(2, 1), upload) /\ DLeq(upload, Num(2))
                  /\ DLeq(Num(1), download) /\ DLeq(download, Num(8))
                  /\ r.intl_sms \in 10..50

\* C4 witness: a record of a Low tier profile was generated with no roaming.
C4_Witness ==
    /\ Generated
    /\ customer_profiles[gen_profile].international = "Low"
    /\ gen_record.val.intl_voice = 0
    /\ gen_record.val.intl_data_upload = <<"0", ".", "0", "0">>
    /\ gen_record.val.intl_sms = 0

\* the data rows of a file: those after the 5 rows the loader skips
DataRowsOf(file) == SubSeq(file.rows, 6, Len(file.rows))

\* the plans a catalog holds for an operator, none when the operator is absent
CatalogPlans(catalog, op_name) ==
    IF HasOperator(catalog, op_name) THEN PlansOf(catalog, op_name) ELSE <<>>

\* the plans the well-formed rows among rows describe for an operator, in row order
RECURSIVE WellFormedPlans(_, _)
WellFormedPlans(rows, op_name) ==
    IF rows = <<>> THEN <<>>
    ELSE LET row == Head(rows)
         IN  IF row \in WellFormedRows /\ strip(At(row, 0)) = op_name
             THEN <<plan_data(row, row_price(row).val)>> \o WellFormedPlans(Tail(rows), op_name)
             ELSE WellFormedPlans(Tail(rows), op_name)

FileOperators == {"Operator B (champion)", "Operator T"}

\* C8: find_better_competitor_plan and generate_dynamic_insight never raise on
\* a price or allowance string that is not a number ("Unlimited", the empty
\* string, other text): no call ends in a ValueError or TypeError of a
\* conversion.
C8_TextNeverRaises ==
    /\ better_plan.exc \notin {"ValueError", "TypeError"}
    /\ insight.exc /= "ValueError"

\* C9: generate_multiple_records(20, catalog) returns exactly 20 records, at
\* least 8 of them Churned, at least 2 At Risk and at least 2 Not Churned,
\* whatever the random source yields.
C9_BatchOfTwenty ==
    (batch_count = 20 /\ batch_operators /= None /\ batch_result /= "running") =>
        /\ batch_result = "returned"
        /\ len(batch_records) = 20
        /\ CopiesIn("Churned", batch_records.churn_statuses) >= 8
        /\ CopiesIn("At Risk", batch_records.churn_statuses) >= 2
        /\ CopiesIn("Not Churned", batch_records.churn_statuses) >= 2

\* C10: the insights file saved after a records file carries the same
\* YYYYMMDD_HHMMSS timestamp in its name, whatever time passes between the two
\* calls.
C10_SameTimestamp ==
    (records_file.dir = "output" /\ insights_file.dir = "output") =>
        insights_file.timestamp = records_file.timestamp

\* C5: load_plans_from_csv never raises; for a missing file, a file of fewer than
\* 5 rows and a file with a data row whose price columns cannot be read it
\* returns the default catalog.
C5_LoaderNeverRaises ==
    load_result /= NotLoaded =>
        /\ load_result.exc = ""
        /\ (\/ ~csv_file.exists
            \/ Len(csv_file.rows) < 5
            \/ \E i \in 1..Len(DataRowsOf(csv_file)) : DataRowsOf(csv_file)[i] \in TruncatedRows)
           => load_result.val = get_default_operators

\* C5 witness: a file with its 5 header rows and a truncated data row was loaded
\* and the default catalog came back.
C5_Witness ==
    /\ load_result /= NotLoaded
    /\ csv_file.exists
    /\ Len(csv_file.rows) > 5
    /\ \E i \in 1..Len(DataRowsOf(csv_file)) : DataRowsOf(csv_file)[i] \in TruncatedRows
    /\ load_result.val = get_default_operators

\* C6: a row with too few columns or without a price for its customer type is
\* skipped on its own: the catalog returned for a file with its 5 header rows
\* holds, for each operator, the plans of all well-formed data rows in file order.
C6_BadRowsSkippedAlone ==
    (load_result /= NotLoaded /\ csv_file.exists /\ Len(csv_file.rows) >= 5) =>
        /\ load_result.exc = ""
        /\ \A op_name \in FileOperators :
              CatalogPlans(load_result.val, op_name)
                  = WellFormedPlans(DataRowsOf(csv_file), op_name)

\* C7: extract_price_numeric never raises, drops what follows the first "/" and
\* every "$" before parsing, returns 0 for the empty string and for a string that
\* still does not parse, and the parsed number otherwise.
C7_PriceExtraction ==
    price_result /= NoResult =>
        LET stripped == RemoveChar(SplitFirst(price_str, "/"), "$")
        IN  /\ price_result.exc = ""
            /\ price_str = <<>> => price_result.val = Num(0)
            /\ FloatMalformed(stripped) => price_result.val = Num(0)
            /\ ~FloatMalformed(stripped) => price_result.val = FloatValue(stripped)
            /\ price_str = <<"4", "0">> \o SlashLine => price_result.val = Num(40)
            /\ price_str = <<"$", "1", "5">> => price_result.val = Num(15)
            /\ LET n == Len(price_str) - Len(SlashLine)
                   s == SubSeq(price_str, 1, n)
               IN  (n >= 0 /\ price_str = s \o SlashLine /\ ~FloatMalformed(s))
                       => price_result.val = FloatValue(s)
            /\ (price_str /= <<>> /\ Head(price_str) = "$" /\ ~FloatMalformed(Tail(price_str)))
                   => price_result.val = FloatValue(Tail(price_str))

\* C7 witness: "40/line" was converted to 40.
C7_Witness ==
    /\ price_str = <<"4", "0">> \o SlashLine
    /\ price_result = Returned(Num(40))

----------------------------------------------------------------------------
\* C11: generate_synthetic_record called with a profile type outside the fixed
\* set ends with the error of the failed lookup, returns no record and leaves
\* the catalog as it was (no plan is looked up or selected, no value drawn);
\* for a profile type of the set it does not end with that error.
C11_UnknownProfileFailsFast ==
    [][gen_record = NotLoaded /\ gen_record' /= NotLoaded =>
          IF gen_profile \in random_choice(ProfileTypes)
          THEN gen_record'.exc /= "ValueError"
          ELSE /\ gen_record' = [exc |-> "ValueError", val |-> <<>>]
               /\ gen_operators' = gen_operators]_vars

C11_Witness ==
    /\ gen_profile = UnknownProfile
    /\ gen_operators = get_default_operators
    /\ gen_record.exc = "ValueError"

\* C12: in every batch generate_multiple_records returns there are as many
\* insights as records, the insights carry the account IDs and the churn
\* statuses of the records, and no two records share an account ID.
C12_InsightsMatchRecords ==
    batch_result = "returned" =>
        /\ len(batch_insights) = len(batch_records)
        /\ batch_insights = batch_records
        /\ \A account_id \in generate_account_id :
              CopiesIn(account_id, batch_records.account_ids) <= 1

\* C13: the plan catalog is read-only after load: a call of
\* generate_synthetic_record, generate_dynamic_insight or
\* generate_multiple_records leaves every plan of the catalog passed to it with
\* the fields and values it had before the call.
C13_CatalogReadOnly ==
    [][gen_operators' = gen_operators /\ batch_operators' = batch_operators]_vars

\* C14: two runs of generate_multiple_records with the same count, on the same
\* catalog and with the same values from the random source end the same way
\* with the same records and the same insights, although the second run finds
\* the catalog as the first one left it.
C14_SameDrawsSameOutput ==
    (Len(replay_runs) = 2 /\ ~InLoop(replay_runs[2])) =>
        /\ replay_runs[2].records = replay_runs[1].records
        /\ replay_runs[2].insights = replay_runs[1].insights
        /\ replay_runs[2].result = replay_runs[1].result

\* C14 witness: both runs returned a record and its insight, and the catalog
\* they were given had been changed by the first.
C14_Witness ==
    /\ Len(replay_runs) = 2
    /\ replay_runs[2].result = "running"
    /\ Len(replay_runs[2].insights) = replay_count
    /\ Len(replay_runs[1].insights) = replay_count
    /\ replay_operators \notin Catalogs

\* the competitor plans of a catalog that carry the operator and the plan name
\* an insight text names
NamedIn(text, operators) ==
    {k \in 1..Len(competitor_plans(operators)) :
        /\ competitor_plans(operators)[k].op_name = text.better_operator
        /\ competitor_plans(operators)[k].plan.name = text.better_plan_name}

\* the insight text of the generated record names a competitor plan
NamesCompetitor ==
    /\ insight /= NotLoaded
    /\ insight.exc = ""
    /\ insight.val.template = "competitor"

\* C15: for a Price Sensitive record that is Churned, the savings the insight
\* text reports for the competitor plan it names are the record's own Price
\* (its numeric part) minus the price of that competitor plan.
C15_SavingsFromRecordPrice ==
    (/\ gen_profile = "Price Sensitive"
     /\ gen_record.val.churn_status = "Churned"
     /\ NamesCompetitor) =>
        \E k \in NamedIn(insight.val, gen_operators) :
            insight.val.reason.amount =
                format_2f(DSub(PriceOf(gen_record.val.price),
                               PriceOf(competitor_plans(gen_operators)[k].plan.price)))

\* the k-th competitor plan of the catalog, its operator and its price
CompetitorPlan(k) == competitor_plans(gen_operators)[k].plan
CompetitorOperator(k) == competitor_plans(gen_operators)[k].op_name
CompetitorPrice(k) == PriceOf(CompetitorPlan(k).price)

\* the allowance of the plan, a number of GB, is at least the usage
Covers(allowance, usage) ==
    /\ float(ReplaceAll(allowance, <<"G", "B">>, <<>>)).exc = ""
    /\ DLeq(float(usage).val, float(ReplaceAll(allowance, <<"G", "B">>, <<>>)).val)

\* the competitor plans priced strictly below the current plan whose data
\* allowance is Unlimited or at least the customer's download usage
CheaperSufficient ==
    {k \in 1..Len(competitor_plans(gen_operators)) :
        /\ DLess(CompetitorPrice(k), PriceOf(current_plan.price))
        /\ \/ CompetitorPlan(k).dataAllowance = Unlimited
           \/ Covers(CompetitorPlan(k).dataAllowance, gen_record.val.data_download)}

\* find_better_competitor_plan returned the k-th competitor plan
ReturnedCompetitor(k) ==
    /\ better_plan.exc = ""
    /\ better_plan.val.operator = CompetitorOperator(k)
    /\ better_plan.val.plan = CompetitorPlan(k)

\* C16: for the profile Price Sensitive find_better_competitor_plan returns the
\* first plan, in catalog order over the operators other than the champion,
\* that attains the minimum price among the plans priced strictly below the
\* current plan whose data allowance is Unlimited or at least the download
\* usage; a later plan of equal price does not replace it; the result is
\* (None, None, None) exactly when there is no such plan.
C16_FirstCheapestSufficient ==
    (gen_profile = "Price Sensitive" /\ better_plan /= NotLoaded) =>
        IF CheaperSufficient = {} THEN better_plan = Returned(NoneTuple)
        ELSE \E k \in CheaperSufficient :
                /\ \A j \in CheaperSufficient : DLeq(CompetitorPrice(k), CompetitorPrice(j))
                /\ \A j \in CheaperSufficient :
                      j < k => DLess(CompetitorPrice(k), CompetitorPrice(j))
                /\ ReturnedCompetitor(k)

\* a cheaper plan is passed over for its allowance and the plan returned has a
\* later plan of its price
C16_Witness ==
    /\ gen_profile = "Price Sensitive"
    /\ better_plan /= NotLoaded
    /\ \E k \in CheaperSufficient :
          /\ ReturnedCompetitor(k)
          /\ \E j \in CheaperSufficient : j > k /\ CompetitorPrice(j) = CompetitorPrice(k)
    /\ \E k \in 1..Len(competitor_plans(gen_operators)) :
          /\ k \notin CheaperSufficient
          /\ \A j \in CheaperSufficient : DLess(CompetitorPrice(k), CompetitorPrice(j))

\* an allowance as a number: 1000 for "Unlimited", 0 for text that is no number
AllowanceValue(s) ==
    IF s = Unlimited THEN Num(1000)
    ELSE IF FloatMalformed(s) THEN Num(0)
    ELSE FloatValue(s)

\* by how much b exceeds a, 0 when it does not
Improvement(a, b) == IF DLess(a, b) THEN DSub(b, a) ELSE Num(0)

\* the feature score of a competitor plan against the current plan: +2 for
\* reaching 4K UHD, +1 for HD from SD, a fifth of the international data
\* improvement up to +3, a tenth of the hotspot improvement up to +2, +1 for a
\* longer country list
FeatureScore(plan, current) ==
    DAdd(DAdd(IF plan.streamingQuality = "4K UHD" /\ current.streamingQuality /= "4K UHD"
              THEN Num(2)
              ELSE IF plan.streamingQuality = "HD" /\ current.streamingQuality = "SD"
                   THEN Num(1)
              ELSE Num(0),
              DMin(Num(3), DFifth(Improvement(AllowanceValue(current.international_data),
                                              AllowanceValue(plan.international_data))))),
         DAdd(DMin(Num(2), DTenth(Improvement(AllowanceValue(current.hotspot_data),
                                              AllowanceValue(plan.hotspot_data)))),
              IF Len(plan.international_countries) > Len(current.international_countries)
              THEN Num(1) ELSE Num(0)))

\* the competitor plans priced at most 1.3 times the current plan's price
WithinThirtyPercent ==
    {k \in 1..Len(competitor_plans(gen_operators)) :
        DLeq(CompetitorPrice(k), DMul(PriceOf(current_plan.price), Dec(13, 1)))}

\* C17: for the profile Feature Deficiency find_better_competitor_plan looks at
\* the plans of the other operators priced at most 1.3 times the current
\* plan's price and returns the first plan with the highest feature score,
\* provided that score exceeds 1; otherwise it returns (None, None, None).
C17_FirstBestFeatures ==
    (gen_profile = "Feature Deficiency" /\ better_plan /= NotLoaded) =>
        IF \E k \in WithinThirtyPercent :
              DLess(Num(1), FeatureScore(CompetitorPlan(k), current_plan))
        THEN \E k \in WithinThirtyPercent :
                /\ \A j \in WithinThirtyPercent :
                      DLeq(FeatureScore(CompetitorPlan(j), current_plan),
                           FeatureScore(CompetitorPlan(k), current_plan))
                /\ \A j \in WithinThirtyPercent :
                      j < k => DLess(FeatureScore(CompetitorPlan(j), current_plan),
                                     FeatureScore(CompetitorPlan(k), current_plan))
                /\ ReturnedCompetitor(k)
        ELSE better_plan = Returned(NoneTuple)

\* the champion plan the record was generated from
RecordPlan ==
    CHOOSE plan \in random_choice(PlansOf(gen_operators, Champion)) :
        plan.planID = gen_record.val.plan_id

\* a price in hundredths
Hundredths(x) == x.m * Pow10(2 - x.d)

\* a / b < c / d for positive b and d
FractionLess(x, y) == x.n * y.q < y.n * x.q

\* min(5, (c / p - 1) * 10) as a fraction, for prices c > p in hundredths
PriceRatioPart(c, p) ==
    IF p <= 0 THEN [n |-> 0, q |-> 1]
    ELSE IF 10 * (c - p) >= 5 * p THEN [n |-> 5, q |-> 1]
    ELSE [n |-> 10 * (c - p), q |-> p]

PlusPoints(part, points) == [n |-> part.n + points * part.q, q |-> part.q]

\* the value score of a competitor plan against the record's plan: the price
\* ratio part capped at 5, +3 for reaching unlimited data, +2 for the same
\* market segment
ValueScore(plan, current) ==
    PlusPoints(PriceRatioPart(Hundredths(PriceOf(current.price)),
                              Hundredths(PriceOf(plan.price))),
               (IF plan.dataAllowance = Unlimited /\ current.dataAllowance /= Unlimited
                THEN 3 ELSE 0)
               + (IF plan.marketSegment = current.marketSegment THEN 2 ELSE 0))

\* the competitor plans priced strictly below the record's own price
CheaperThanRecord ==
    {k \in 1..Len(competitor_plans(gen_operators)) :
        DLess(CompetitorPrice(k), PriceOf(gen_record.val.price))}

\* C18: for a record with Churn Status "At Risk" the competitor plan the
\* insight names is priced strictly below the record's own plan and is the
\* first plan with the highest value score among the strictly cheaper plans
\* of the other operators, and that score exceeds 2.
C18_AtRiskNamesBestCheaper ==
    (gen_record.val.churn_status = "At Risk" /\ NamesCompetitor) =>
        \E k \in NamedIn(insight.val, gen_operators) \cap CheaperThanRecord :
            /\ FractionLess([n |-> 2, q |-> 1], ValueScore(CompetitorPlan(k), RecordPlan))
            /\ \A j \in CheaperThanRecord :
                  ~FractionLess(ValueScore(CompetitorPlan(k), RecordPlan),
                                ValueScore(CompetitorPlan(j), RecordPlan))
            /\ \A j \in CheaperThanRecord :
                  j < k => FractionLess(ValueScore(CompetitorPlan(j), RecordPlan),
                                        ValueScore(CompetitorPlan(k), RecordPlan))

\* the plans of the alternate operator, and those among a set of them that a
\* preference keeps: the preferred ones when there are any, all otherwise
AlternatePlans == PlansOf(gen_operators, AlternateOperator)

Preferring(pool, Preferred(_)) ==
    IF \E k \in pool : Preferred(k) THEN {k \in pool : Preferred(k)} ELSE pool

SameSegmentAsCurrent(k) == AlternatePlans[k].marketSegment = current_plan.marketSegment
HasUnlimitedData(k) == AlternatePlans[k].dataAllowance = Unlimited

\* how far the price of the k-th plan of the alternate operator is from the
\* current price
PriceDistance(k) == DAbs(DSub(PriceOf(AlternatePlans[k].price), PriceOf(current_plan.price)))

\* the plans the search may settle on: of the pool, those of the current
\* plan's market segment when there are any, the nearest in price otherwise
SegmentThenNearest(pool) ==
    IF \E k \in pool : SameSegmentAsCurrent(k) THEN {k \in pool : SameSegmentAsCurrent(k)}
    ELSE {k \in pool : \A j \in pool : DLeq(PriceDistance(k), PriceDistance(j))}

\* find_better_competitor_plan returned the k-th plan of the alternate operator
ReturnedAlternate(k) ==
    /\ better_plan.exc = ""
    /\ better_plan.val.operator = AlternateOperator
    /\ better_plan.val.plan = AlternatePlans[k]

\* C19: for the profiles Customer Service and Network Quality
\* find_better_competitor_plan returns nothing but a plan of Operator T: one
\* of the current plan's market segment when Operator T has one, the nearest
\* in price otherwise, Network Quality looking among the Unlimited plans when
\* there are any; without Operator T or without plans of it the result is
\* (None, None, None).
C19_AlternateOperatorOnly ==
    (gen_profile \in {"Customer Service", "Network Quality"} /\ better_plan /= NotLoaded) =>
        IF ~HasOperator(gen_operators, AlternateOperator) \/ AlternatePlans = <<>>
        THEN better_plan = Returned(NoneTuple)
        ELSE \/ better_plan = Returned(NoneTuple)
             \/ \E k \in SegmentThenNearest(
                             IF gen_profile = "Network Quality"
                             THEN Preferring(DOMAIN AlternatePlans, HasUnlimitedData)
                             ELSE DOMAIN AlternatePlans) : ReturnedAlternate(k)

\* the competitor plans of the catalog that pass a test
CompetitorsThat(Test(_)) == {k \in 1..Len(competitor_plans(gen_operators)) : Test(k)}

IsCheaper(k, plan) == DLess(CompetitorPrice(k), PriceOf(plan.price))
IsFamilyOrCug(plan) == plan.customerType = "Family & CUG"

\* the grounds for staying that hold for a champion plan, by their place in
\* the order they are tried in
GroundsToStay(plan) ==
    {i \in 1..5 :
        CASE i = 1 -> plan.popularity = "Best Value"
          [] i = 2 ->
               /\ plan.marketSegment /= "General"
               /\ CompetitorsThat(LAMBDA k : CompetitorPlan(k).marketSegment
                                                = plan.marketSegment) = {}
          [] i = 3 ->
               /\ plan.streamingQuality = "4K UHD"
               /\ Cardinality(CompetitorsThat(LAMBDA k : CompetitorPlan(k).streamingQuality
                                                             = "4K UHD")) <= 2
          [] i = 4 ->
               /\ plan.dataAllowance = Unlimited
               /\ CompetitorsThat(LAMBDA k : /\ CompetitorPlan(k).dataAllowance = Unlimited
                                             /\ IsCheaper(k, plan)) = {}
          [] i = 5 ->
               /\ IsFamilyOrCug(plan)
               /\ CompetitorsThat(LAMBDA k : /\ IsFamilyOrCug(CompetitorPlan(k))
                                             /\ IsCheaper(k, plan)) = {}}

\* the reasons find_reasons_to_stay gives on each of the grounds
ReasonsOn ==
    <<{"optimum combination of price and features in our 'Best Value' plan"},
      {"exclusive benefits for the customers of the segment"},
      {"exclusive 4K UHD streaming quality not offered by competitors",
       "premium 4K UHD streaming quality offered by few competitors"},
      {"best price for unlimited data in the market"},
      {"best value multi-line family plan"}>>

\* the reason is that of the first ground that holds for the plan, the empty
\* reason when none holds
FirstGroundGives(reason, plan) ==
    IF GroundsToStay(plan) = {} THEN reason = ""
    ELSE \E i \in GroundsToStay(plan) :
            /\ \A j \in GroundsToStay(plan) : i <= j
            /\ reason \in ReasonsOn[i]

\* a record that is neither Churned nor At Risk
StaysLoyal == gen_record.val.churn_status \notin {"Churned", "At Risk"}

\* the champion plan generate_dynamic_insight hands to find_reasons_to_stay:
\* the first one that carries the plan name of the record
PlanOfInsight ==
    Head(SelectSeq(PlansOf(gen_operators, Champion),
                   LAMBDA plan : plan.name = gen_record.val.plan_name))

\* the reason an insight text carries, empty for the generic loyalty sentence
ReasonIn(text) == IF "reason" \in DOMAIN text THEN text.reason ELSE ""

\* C20: for a record that is neither Churned nor At Risk find_reasons_to_stay
\* returns a reason exactly when a ground holds for the current plan against
\* the plans of the other operators (Best Value; a segment other than General
\* that no competitor plan has; 4K UHD that at most 2 competitor plans stream;
\* Unlimited data with no cheaper Unlimited competitor plan; a family or CUG
\* plan with no cheaper family or CUG competitor plan), the reason being that
\* of the first ground that holds; otherwise it is empty, and then the
\* insight text is the generic loyalty sentence, without a reason.
C20_FirstGroundToStay ==
    /\ (StaysLoyal /\ stay_reason /= NoReason) =>
          /\ stay_reason.exc = ""
          /\ FirstGroundGives(stay_reason.val, current_plan)
    /\ (StaysLoyal /\ insight /= NotLoaded /\ insight.exc = "") =>
          /\ insight.val.template = "loyal"
          /\ FirstGroundGives(ReasonIn(insight.val), PlanOfInsight)

\* a plan that is not Best Value with two grounds to stay, and the reason of
\* the first of them
C20_Witness ==
    /\ StaysLoyal
    /\ stay_reason.exc = ""
    /\ stay_reason.val \in ReasonsOn[2]
    /\ 1 \notin GroundsToStay(current_plan)
    /\ Cardinality(GroundsToStay(current_plan)) >= 2

\* the champion plans a record of the catalog can be given: those of the
\* catalog, those of the default catalog when the champion operator is absent
\* or has no plans
PlansOnOffer ==
    IF has_champion_plans(gen_operators) THEN PlansOf(gen_operators, Champion)
    ELSE PlansOf(get_default_operators, Champion)

\* the plan of the list the record was built from
IsPlanOfRecord(plan) ==
    /\ plan.planID = gen_record.val.plan_id
    /\ plan.name = gen_record.val.plan_name
    /\ plan.price = gen_record.val.price
    /\ plan.marketSegment = gen_record.val.market_segment
    /\ plan.customerType = gen_record.val.customer_type

PricedFrom(plan, low) == DLeq(Num(low), PriceOf(plan.price))
PricedBelow(plan, high) == DLess(PriceOf(plan.price), Num(high))
IsBestValue(plan) == plan.popularity = "Best Value"

\* the plans the profile and the outcome ask for
IsCandidate(plan) ==
    CASE gen_profile = "Price Sensitive" /\ gen_churned -> PricedFrom(plan, 50)
      [] gen_profile = "Price Sensitive" /\ ~gen_churned -> PricedBelow(plan, 50)
      [] gen_profile = "Network Quality" /\ gen_churned -> plan.dataAllowance = Unlimited
      [] gen_profile = "Loyal Customer" ->
           IF \E k \in DOMAIN PlansOnOffer : IsBestValue(PlansOnOffer[k])
           THEN IsBestValue(plan)
           ELSE PricedFrom(plan, 80)
      [] gen_profile = "At Risk" -> PricedFrom(plan, 50) /\ PricedBelow(plan, 80)
      [] OTHER -> TRUE

\* C21: the plan of a record is one of the champion plans of the catalog, or
\* of the default catalog when the champion operator is absent or has no
\* plans; when plans of the list meet what the profile and the outcome ask
\* for (Price Sensitive churned: price at least 50; not churned: below 50;
\* Network Quality churned: Unlimited data; Loyal Customer: Best Value, else
\* price at least 80; At Risk: price from 50 to below 80), the plan is one of
\* them.
C21_PlanFromCandidates ==
    (gen_record /= NotLoaded /\ gen_record.exc = "") =>
        \E k \in DOMAIN PlansOnOffer :
            /\ IsPlanOfRecord(PlansOnOffer[k])
            /\ (\E j \in DOMAIN PlansOnOffer : IsCandidate(PlansOnOffer[j]))
                  => IsCandidate(PlansOnOffer[k])

\* no plan of the list meets what the profile asks for, and the record has one
\* of the list all the same
C21_Witness ==
    /\ gen_record /= NotLoaded
    /\ gen_record.exc = ""
    /\ has_champion_plans(gen_operators)
    /\ \A j \in DOMAIN PlansOnOffer : ~IsCandidate(PlansOnOffer[j])
    /\ \E k \in DOMAIN PlansOnOffer : IsPlanOfRecord(PlansOnOffer[k])

\* C22: for every count of at least 1 a batch generate_multiple_records
\* returns holds exactly count records, at least 40% of them of the category
\* churned, at least 10% of the category at_risk and at least 10% of the
\* category loyal, and the three category counters sum to count.
C22_CategoryShares ==
    batch_result = "returned" =>
        /\ len(batch_records) = batch_count
        /\ category_counts.churned + category_counts.at_risk + category_counts.loyal
              = batch_count
        /\ 10 * category_counts.churned >= 4 * batch_count
        /\ 10 * category_counts.at_risk >= batch_count
        /\ 10 * category_counts.loyal >= batch_count

\* C23: every record has a satisfaction score from 1 to 5, and a record with
\* satisfaction score 5 or with no complaints has Churn Status "Not Churned",
\* for every profile type and both values of is_churned.
C23_SatisfiedNeverAtRisk ==
    (gen_record /= NotLoaded /\ gen_record.exc = "") =>
        /\ gen_record.val.satisfaction_score \in 1..5
        /\ (gen_record.val.satisfaction_score = 5 \/ gen_record.val.complaints = 0)
              => gen_record.val.churn_status = "Not Churned"


----------------------------------------------------------------------------
(* The dashboard's file pairs *)

RecordsFiles == glob(csv_files, "telecom_customer_records")
InsightsFiles == glob(csv_files, "telecom_customer_insights")

\* the pairs returned that hold a records file
PairsOf(records_name) ==
    {i \in DOMAIN matched_pairs : matched_pairs[i].records_file = records_name}

\* C24: get_matching_csv_files returns a pair only when the records file and
\* the insights file carry the identical full timestamp, date and time of day,
\* so never a pair across two dates, and it returns every records file that
\* has such an insights file exactly once.
C24_PairsShareFullTimestamp ==
    /\ \A i \in DOMAIN matched_pairs :
           matched_pairs[i].records_file.timestamp
               = matched_pairs[i].insights_file.timestamp
    /\ \A r \in RecordsFiles :
           (\E n \in InsightsFiles : n.timestamp = r.timestamp)
               => Cardinality(PairsOf(r)) = 1

\* the full timestamps, date and time of day, that a records file and an
\* insights file of a directory both carry
FullPairs(files) ==
    {n.timestamp : n \in glob(files, "telecom_customer_records")}
        \cap {n.timestamp : n \in glob(files, "telecom_customer_insights")}

LaterThan(timestamp, other) ==
    NameOrder([timestamp |-> timestamp]) > NameOrder([timestamp |-> other])

\* the timestamps that fewer than a number of others are later than
MostRecent(timestamps, number) ==
    {t \in timestamps : Cardinality({u \in timestamps : LaterThan(u, t)}) < number}

\* C25: delete_older_data_files(keep_pairs) keeps exactly the keep_pairs most
\* recent pairs by date and time of generation (all pairs if there are fewer),
\* so that no later pair is deleted while an earlier one is kept, deletes every
\* other CSV file, leaves the kept files as they were and returns the number of
\* files it deleted.
C25_KeepsMostRecentPairs ==
    last_run.op = "delete_older" =>
        /\ csv_files =
               {f \in last_run.found :
                    f.name.timestamp \in MostRecent(FullPairs(last_run.found),
                                                    last_run.keep_pairs)}
        /\ last_run.returned = Cardinality(last_run.found) - Cardinality(csv_files)

Refused == {"too many files", "generated recently"}

\* C26: a generation is refused whenever the output directory already holds 40
\* or more CSV files, a refused generation creates and changes no file, and a
\* generation that writes files never leaves more than 40 CSV files.
C26_NeverMoreThanFortyFiles ==
    last_run.op = "generate" =>
        /\ Cardinality(last_run.found) >= 40 => last_run.returned \in Refused
        /\ last_run.returned \in Refused => csv_files = last_run.found
        /\ last_run.returned = "written" => Cardinality(csv_files) <= 40

\* C27: in every sequence of generations, deletions and refreshes, two runs of
\* generate_fresh_data that each wrote data files are at least 120 seconds
\* apart.
C27_GenerationsTwoMinutesApart ==
    Len(written_at) = 2 => total_seconds(written_at[2], written_at[1]) >= 120

----------------------------------------------------------------------------
(* Batches from catalogs without champion plans *)

\* no catalog, a catalog without the champion operator, a champion without plans
WithoutChampionPlans == {None, CatalogWithoutChampion, CatalogWithoutChampionPlans}

\* C28: generate_multiple_records(count, operators) does not raise and returns
\* count records and count insights when operators is None, when the catalog
\* lacks the champion operator and when the champion's plan list is empty.
C28_BatchWithoutChampionPlans ==
    batch_operators \in WithoutChampionPlans =>
        /\ batch_result \in {"running", "returned"}
        /\ batch_result = "returned" =>
               /\ len(batch_records) = batch_count
               /\ len(batch_insights) = batch_count

----------------------------------------------------------------------------
(* The insight of every record *)

\* C29: for every record generate_synthetic_record produces from the default
\* catalog, of every profile and churned or not, generate_dynamic_insight
\* returns a text, never None, whether or not a better plan is found.
C29_InsightIsAText ==
    (insight /= NotLoaded /\ gen_operators = catalog_after_selection(get_default_operators))
        => (insight.exc = "" /\ insight.val /= NoText)

\* the record's Plan ID is the ID of a champion plan of the catalog
PlanIdOnOffer ==
    /\ gen_record /= NotLoaded
    /\ gen_record.exc = ""
    /\ has_champion_plans(gen_operators)
    /\ \E plan \in random_choice(PlansOf(gen_operators, Champion)) :
           plan.planID = gen_record.val.plan_id

\* C30: whenever the record's Plan ID exists among the champion plans, the
\* current plan generate_dynamic_insight compares against is that very plan,
\* of the same plan ID, price, segment and customer type, also when several
\* champion plans share a display name.
C30_ComparesThePlanOfTheRecord ==
    (PlanIdOnOffer /\ insight /= NotLoaded) => IsPlanOfRecord(PlanOfInsight)

========================================================================
